---- MODULE Spec2Model ----
(***************************************************************************)
(* Model of the Spotify-tracks visualisation components (Vue + d3):        *)
(* the CSV coercion and filters of each component's loadData, the artist   *)
(* and genre aggregations, the top-N ranking, the popularity bucketing of  *)
(* the Sankey diagram, and the mount / load / resize / unmount lifecycle   *)
(* that decides when initChart draws.                                      *)
(*                                                                         *)
(* Strings are sequences of one-character strings.  A JavaScript number    *)
(* is a fixed-point integer counted in thousandths (33.999 is 33999), and  *)
(* NaN is a value of its own that every comparison rejects.                *)
(***************************************************************************)
EXTENDS Integers, Sequences, FiniteSets, TLC

VARIABLES
    pc,             \* position of the pure-function harness: "idle" | "in" | "out"
    fnIn,           \* argument handed to the function under check
    fnOut,          \* its result
    comp,           \* the component this instance is
    file,           \* rows of the CSV file d3.csv will deliver
    phase,          \* "setup" | "mounted" | "unmounted"
    load,           \* loadData: "idle" | "pending" | "done" | "failed"
    data,           \* data.value
    size,           \* size.value
    container,      \* container.value is an element (not null)
    listener,       \* window carries the debounced resize listener
    timer,          \* a debounced onResize call is pending
    observing,      \* the ResizeObserver observes the container
    chartType,      \* chartType.value of the genre bar / pie
    selectedArtist, \* selectedArtist prop of the Sankey diagram
    svg,            \* what the <svg> shows: nothing, or the inputs of the pass that drew it
    drew            \* the last step ran a drawing pass

pureVars == <<pc, fnIn, fnOut>>

lifeVars == <<comp, file, phase, load, data, size, container, listener, timer,
              observing, chartType, selectedArtist, svg, drew>>

vars == <<pureVars, lifeVars>>

(***************************************************************************)
(* Numbers                                                                 *)
(***************************************************************************)

\* Thousandths per unit: the resolution of the fixed-point numbers.
Milli == 10 * 10 * 10

\* The scale the popularity columns are documented on (0-100).
MaxPopularity == 100

NaN == -1

isNaN(x) == x = NaN

\* JavaScript's a < b and a > b: false as soon as one side is NaN.
Lt(a, b) == ~isNaN(a) /\ ~isNaN(b) /\ a < b

Gt(a, b) == ~isNaN(a) /\ ~isNaN(b) /\ a > b

\* JavaScript's a + b.
Plus(a, b) == IF isNaN(a) \/ isNaN(b) THEN NaN ELSE a + b

(***************************************************************************)
(* Strings and the unary-plus coercion of a CSV cell                       *)
(***************************************************************************)

Digits == {"0", "1", "2", "3", "4", "5", "6", "7", "8", "9"}

DigitVal(c) ==
    CASE c = "0" -> 0 [] c = "1" -> 1 [] c = "2" -> 2 [] c = "3" -> 3
      [] c = "4" -> 4 [] c = "5" -> 5 [] c = "6" -> 6 [] c = "7" -> 7
      [] c = "8" -> 8 [] c = "9" -> 9

RECURSIVE trimStart(_)
trimStart(s) ==
    IF s # <<>> /\ Head(s) = " " THEN trimStart(Tail(s)) ELSE s

RECURSIVE trimEnd(_)
trimEnd(s) ==
    IF s # <<>> /\ s[Len(s)] = " "
    THEN trimEnd(SubSeq(s, 1, Len(s) - 1))
    ELSE s

\* String.prototype.trim
trim(s) == trimEnd(trimStart(s))

\* Position of the first c in s, 0 when there is none.
IndexOf(s, c) ==
    IF \E i \in 1..Len(s) : s[i] = c
    THEN CHOOSE i \in 1..Len(s) : s[i] = c /\ \A j \in 1..(i - 1) : s[j] # c
    ELSE 0

AllDigits(s) == \A i \in 1..Len(s) : s[i] \in Digits

RECURSIVE DigitsValue(_)
DigitsValue(s) ==
    IF s = <<>>
    THEN 0
    ELSE DigitsValue(SubSeq(s, 1, Len(s) - 1)) * 10 + DigitVal(s[Len(s)])

\* The fraction digits of a decimal literal, in thousandths.
FracValue(fp) ==
    LET d(i) == IF i <= Len(fp) THEN DigitVal(fp[i]) ELSE 0
    IN  d(1) * 100 + d(2) * 10 + d(3)

\* +cell : the empty (or blank) string is 0, an unsigned decimal literal is
\* its value, other text is NaN.  (Signed, exponent and hexadecimal literals
\* and "Infinity" are not among the cells of the model.)
ToNumber(cell) ==
    LET t   == trim(cell)
        dot == IndexOf(t, ".")
        ip  == IF dot = 0 THEN t ELSE SubSeq(t, 1, dot - 1)
        fp  == IF dot = 0 THEN <<>> ELSE SubSeq(t, dot + 1, Len(t))
    IN  IF t = <<>> THEN 0
        ELSE IF AllDigits(ip) /\ AllDigits(fp) /\ (ip # <<>> \/ fp # <<>>)
        THEN DigitsValue(ip) * Milli + FracValue(fp)
        ELSE NaN

(***************************************************************************)
(* Sequence helpers                                                        *)
(***************************************************************************)

SeqsUpTo(S, n) == UNION {[1..k -> S] : k \in 0..n}

\* The array a map() call returns, with every element computed once.
ArrayOf(f) == f \o <<>>

slice_inclusive(s, n) == SubSeq(s, 1, IF Len(s) < n + 1 THEN Len(s) ELSE n + 1)

\* Array.prototype.slice(0, n)
slice(s, n) == SubSeq(s, 1, IF Len(s) < n THEN Len(s) ELSE n)

RECURSIVE SumSeq(_)
\* reduce((a, b) => a + b, 0): the sum is exact in thousandths, so the order
\* of the additions does not matter and the two halves are summed apart.
SumSeq(s) ==
    IF Len(s) = 0 THEN 0
    ELSE IF Len(s) = 1 THEN Plus(0, s[1])
    ELSE LET mid == Len(s) \div 2
         IN  Plus(SumSeq(SubSeq(s, 1, mid)), SumSeq(SubSeq(s, mid + 1, Len(s))))

\* Array.prototype.sort((a, b) => a.key - b.key): the element at index i
\* goes behind every smaller key and behind the equal keys that precede it.
sortAsc(items, keys) ==
    LET n     == Len(items)
        place == ArrayOf([i \in 1..n |->
                     1 + Cardinality({m \in 1..n :
                             \/ keys[m] < keys[i]
                             \/ keys[m] = keys[i] /\ m < i})])
    IN  ArrayOf([j \in 1..n |-> items[CHOOSE i \in 1..n : place[i] = j]])

sortDesc_unsorted(items, keys) == items

\* Array.prototype.sort((a, b) => b.key - a.key): the sort is stable (ES2019),
\* so the element at index i goes behind every larger key and behind the
\* equal keys that precede it.
sortDesc(items, keys) ==
    LET n     == Len(items)
        place == ArrayOf([i \in 1..n |->
                     1 + Cardinality({m \in 1..n :
                             \/ keys[m] > keys[i]
                             \/ keys[m] = keys[i] /\ m < i})])
    IN  ArrayOf([j \in 1..n |-> items[CHOOSE i \in 1..n : place[i] = j]])

(***************************************************************************)
(* Genre parsing and the genre fold (TopArtistsBar.vue, genre bar / pie)   *)
(***************************************************************************)

\* replace(/c/g, '')
removeChar(s, c) == SelectSeq(s, LAMBDA ch : ch # c)

\* replace(/c/g, d)
replaceChar(s, c, d) ==
    ArrayOf([i \in 1..Len(s) |-> IF s[i] = c THEN d ELSE s[i]])

RECURSIVE split(_, _)
\* String.prototype.split(sep): always at least one piece.
split(s, sep) ==
    LET i == IndexOf(s, sep)
    IN  IF i = 0 THEN <<s>>
        ELSE <<SubSeq(s, 1, i - 1)>> \o split(SubSeq(s, i + 1, Len(s)), sep)

\* filter(g => g.length > 0 && g !== '[]')
keepGenres(gs) == SelectSeq(gs, LAMBDA g : Len(g) > 0 /\ g # <<"[", "]">>)

genreString_noSlash(raw) ==
    removeChar(removeChar(removeChar(raw, "["), "]"), "'")

\* The four replace calls on d.artist_genres.
genreString(raw) ==
    replaceChar(removeChar(removeChar(removeChar(raw, "["), "]"), "'"), "/", ",")

\* The genre keys one record contributes, in order.
parseGenres(raw) ==
    IF raw = <<>> \/ trim(raw) = <<>> THEN <<>>
    ELSE LET pieces == split(genreString(raw), ",")
         IN  keepGenres(ArrayOf([i \in 1..Len(pieces) |-> trim(pieces[i])]))

\* genreMap is a Map: its entries in insertion order.
mapHas(map, key) == \E i \in 1..Len(map) : map[i].genre = key

mapIndex(map, key) == CHOOSE i \in 1..Len(map) : map[i].genre = key

RECURSIVE foldGenres_noIncrement(_, _, _)
foldGenres_noIncrement(map, genres, p) ==
    IF genres = <<>> THEN map
    ELSE LET g  == Head(genres)
             m1 == IF mapHas(map, g) THEN map
                   ELSE Append(map, [genre |-> g, count |-> 0, popularities |-> <<>>])
             i  == mapIndex(m1, g)
             m2 == [m1 EXCEPT ![i] = [genre |-> g,
                                      count |-> 1,
                                      popularities |-> Append(m1[i].popularities, p)]]
         IN  foldGenres_noIncrement(m2, Tail(genres), p)

RECURSIVE foldGenres(_, _, _)
\* genres.forEach(genre => { ...; entry.count += 1; entry.popularities.push(p) })
foldGenres(map, genres, p) ==
    IF genres = <<>> THEN map
    ELSE LET g  == Head(genres)
             m1 == IF mapHas(map, g) THEN map
                   ELSE Append(map, [genre |-> g, count |-> 0, popularities |-> <<>>])
             i  == mapIndex(m1, g)
             m2 == [m1 EXCEPT ![i] = [genre |-> g,
                                      count |-> m1[i].count + 1,
                                      popularities |-> Append(m1[i].popularities, p)]]
         IN  foldGenres(m2, Tail(genres), p)

\* One step of rawData.forEach in the genre loadData.
foldGenreRecord(map, d) ==
    foldGenres(map, parseGenres(d.artist_genres), d.track_popularity)

(***************************************************************************)
(* Typed rows and the load-time filters of the track-level components      *)
(***************************************************************************)

StrTrue == <<"T", "r", "u", "e">>

\* Row callback of d3.csv in SankeyDiagram.vue.
SankeyRow(d) ==
    [track_popularity  |-> ToNumber(d.track_popularity),
     artist_popularity |-> ToNumber(d.artist_popularity),
     artist_name       |-> d.artist_name]

\* Row callback of the summary, overview-scatter and treemap components.
SummaryRow(d) ==
    [track_popularity  |-> ToNumber(d.track_popularity),
     artist_popularity |-> ToNumber(d.artist_popularity),
     artist_followers  |-> ToNumber(d.artist_followers),
     artist_name       |-> d.artist_name]

\* Row callback of the summary variant that also reads the duration.
DurationRow(d) ==
    [track_popularity  |-> ToNumber(d.track_popularity),
     artist_popularity |-> ToNumber(d.artist_popularity),
     artist_followers  |-> ToNumber(d.artist_followers),
     artist_name       |-> d.artist_name,
     track_duration_ms |-> ToNumber(d.track_duration_ms)]

\* Row callback of BubbleChart.vue.
BubbleRow(d) ==
    [artist_name       |-> d.artist_name,
     track_duration_ms |-> ToNumber(d.track_duration_ms),
     track_popularity  |-> ToNumber(d.track_popularity),
     artist_followers  |-> ToNumber(d.artist_followers),
     explicit          |-> (d.explicit = StrTrue)]

\* Row callback of ParallelCoordinatesPlot.vue.
ParallelRow(d) ==
    [artist_name       |-> d.artist_name,
     track_duration_ms |-> ToNumber(d.track_duration_ms),
     track_popularity  |-> ToNumber(d.track_popularity),
     artist_followers  |-> ToNumber(d.artist_followers),
     artist_popularity |-> ToNumber(d.artist_popularity)]

\* Row callback of the top-artists bar chart.
ArtistRow(d) ==
    [artist_name       |-> d.artist_name,
     track_popularity  |-> ToNumber(d.track_popularity),
     artist_popularity |-> ToNumber(d.artist_popularity),
     artist_followers  |-> ToNumber(d.artist_followers)]

\* Row callback of the genre bar charts.
GenreRow(d) ==
    [artist_genres    |-> d.artist_genres,
     track_popularity |-> ToNumber(d.track_popularity)]

\* !isNaN(track_popularity) && !isNaN(artist_popularity) && artist_popularity > 0
PopularityKeep(d) ==
    /\ ~isNaN(d.track_popularity)
    /\ ~isNaN(d.artist_popularity)
    /\ Gt(d.artist_popularity, 0)

\* The filter of BubbleChart.vue.
BubbleKeep(d) ==
    /\ ~isNaN(d.track_duration_ms)
    /\ ~isNaN(d.track_popularity)
    /\ ~isNaN(d.artist_followers)
    /\ Gt(d.artist_followers, 0)

\* The filter of ParallelCoordinatesPlot.vue.
ParallelKeep(d) ==
    /\ ~isNaN(d.track_duration_ms)
    /\ ~isNaN(d.track_popularity)
    /\ ~isNaN(d.artist_followers)
    /\ ~isNaN(d.artist_popularity)
    /\ Gt(d.artist_followers, 0)
    /\ Gt(d.track_duration_ms, 0)

\* rawData.filter(...) of the Sankey, summary, overview-scatter and treemap
\* components.
PopularityFilter(rawData) == SelectSeq(rawData, PopularityKeep)

BubbleFilter_skipsFirst(rawData) ==
    IF rawData = <<>> THEN <<>> ELSE SelectSeq(Tail(rawData), BubbleKeep)

\* rawData.filter(...) of BubbleChart.vue.
BubbleFilter(rawData) == SelectSeq(rawData, BubbleKeep)

\* rawData.filter(...) of ParallelCoordinatesPlot.vue.
ParallelFilter(rawData) == SelectSeq(rawData, ParallelKeep)

SankeyLoadData(csv) ==
    PopularityFilter(ArrayOf([i \in 1..Len(csv) |-> SankeyRow(csv[i])]))

SummaryLoadData(csv) ==
    PopularityFilter(ArrayOf([i \in 1..Len(csv) |-> SummaryRow(csv[i])]))

DurationLoadData(csv) ==
    PopularityFilter(ArrayOf([i \in 1..Len(csv) |-> DurationRow(csv[i])]))

BubbleLoadData(csv) ==
    BubbleFilter(ArrayOf([i \in 1..Len(csv) |-> BubbleRow(csv[i])]))

\* Rows kept by the parallel-coordinates plot when more than this many pass.
ParallelLimit == 300

ParallelLoadData_first(csv) ==
    slice(ParallelFilter(ArrayOf([i \in 1..Len(csv) |-> ParallelRow(csv[i])])),
          ParallelLimit)

ParallelLoadData(csv) ==
    LET kept == ParallelFilter(ArrayOf([i \in 1..Len(csv) |-> ParallelRow(csv[i])]))
    IN  IF Len(kept) > ParallelLimit
        THEN slice(sortDesc(kept,
                            ArrayOf([i \in 1..Len(kept) |-> kept[i].track_popularity])),
                   ParallelLimit)
        ELSE kept

(***************************************************************************)
(* Artist grouping, means and the ranked subsets                           *)
(***************************************************************************)

\* A mean is kept exact as the pair sum / count.
Ratio(n, d) == [num |-> n, den |-> d]

\* d3.mean(...) || 0 : NaN values are skipped, no value at all gives 0.
d3meanOr0(values) ==
    LET ok == SelectSeq(values, LAMBDA v : ~isNaN(v))
    IN  IF ok = <<>> THEN Ratio(0, 1) ELSE Ratio(SumSeq(ok), Len(ok))

\* reduce(sum) / length
reduceMean(values) == Ratio(SumSeq(values), Len(values))

groupHas(groups, key) == \E i \in 1..Len(groups) : groups[i].key = key

groupIndex(groups, key) == CHOOSE i \in 1..Len(groups) : groups[i].key = key

\* One row entering its artist's group (a new group goes last).
groupRow(groups, d) ==
    LET g1 == IF groupHas(groups, d.artist_name) THEN groups
              ELSE Append(groups, [key |-> d.artist_name, tracks |-> <<>>])
        i  == groupIndex(g1, d.artist_name)
    IN  [g1 EXCEPT ![i] = [key |-> g1[i].key, tracks |-> Append(g1[i].tracks, d)]]

RECURSIVE groupByArtist(_, _, _, _)
\* The rows lo..hi entering the groups one after another, first to last (the
\* range is walked in two halves; the groups are built before the walk goes
\* on: no group at all stays no group).
groupByArtist(rows, lo, hi, groups) ==
    IF lo > hi THEN groups
    ELSE IF lo = hi THEN groupRow(groups, rows[lo])
    ELSE LET mid  == (lo + hi) \div 2
             left == groupByArtist(rows, lo, mid, groups)
         IN  IF Len(left) = 0
             THEN groupByArtist(rows, mid + 1, hi, <<>>)
             ELSE groupByArtist(rows, mid + 1, hi, left)

\* Artists shown by the top-artists bar chart.
TopArtistsLimit == 15

\* Genres shown by the genre bar charts.
TopGenresLimit == 25

\* Artists shown by the treemap.
TopTreemapLimit == 40

\* groupedMap of the top-artists loadData once rawData.forEach has run: one
\* entry per artist name, in first-seen order, holding the artist's rows.
groupedMap(csv) ==
    LET rows == ArrayOf([i \in 1..Len(csv) |-> ArtistRow(csv[i])])
    IN  groupByArtist(rows, 1, Len(rows), <<>>)

\* loadData of the top-artists bar chart: no filter, Map grouping.
ArtistsLoadData(csv) ==
    LET groups == groupedMap(csv)
        aggregated ==
            ArrayOf([i \in 1..Len(groups) |->
                [artist_name    |-> groups[i].key,
                 track_count    |-> Len(groups[i].tracks),
                 avg_popularity |->
                     d3meanOr0(ArrayOf([k \in 1..Len(groups[i].tracks) |->
                                   groups[i].tracks[k].track_popularity])),
                 avg_followers  |->
                     d3meanOr0(ArrayOf([k \in 1..Len(groups[i].tracks) |->
                                   groups[i].tracks[k].artist_followers]))]])
    IN  slice(sortDesc(aggregated,
                       ArrayOf([i \in 1..Len(aggregated) |->
                                   aggregated[i].track_count])),
              TopArtistsLimit)

RECURSIVE foldGenreRows(_, _, _, _)
\* rawData.forEach over the rows lo..hi, first to last (the range is walked
\* in two halves; the map is built before the walk goes on: an empty map
\* stays the empty map).
foldGenreRows(rows, lo, hi, map) ==
    IF lo > hi THEN map
    ELSE IF lo = hi THEN foldGenreRecord(map, rows[lo])
    ELSE LET mid  == (lo + hi) \div 2
             left == foldGenreRows(rows, lo, mid, map)
         IN  IF Len(left) = 0
             THEN foldGenreRows(rows, mid + 1, hi, <<>>)
             ELSE foldGenreRows(rows, mid + 1, hi, left)

\* genreMap of the genre loadData once rawData.forEach has run.
genreMapOf(csv) ==
    LET rows == ArrayOf([i \in 1..Len(csv) |-> GenreRow(csv[i])])
    IN  foldGenreRows(rows, 1, Len(rows), <<>>)

\* loadData of the genre bar charts.
GenreLoadData(csv) ==
    LET genreMap == genreMapOf(csv)
        genreArray ==
            ArrayOf([i \in 1..Len(genreMap) |->
                [genre          |-> genreMap[i].genre,
                 track_count    |-> genreMap[i].count,
                 avg_popularity |-> reduceMean(genreMap[i].popularities)]])
    IN  slice(sortDesc(genreArray,
                       ArrayOf([i \in 1..Len(genreArray) |->
                                   genreArray[i].track_count])),
              TopGenresLimit)

\* A property name that is an array index: a canonical decimal numeral
\* (names of ten or more digits do not occur in the model).
isArrayIndex(key) ==
    /\ key # <<>>
    /\ AllDigits(key)
    /\ Len(key) = 1 \/ key[1] # "0"
    /\ Len(key) < 10

\* Object.entries of the object lodash groupBy builds: array-index keys first,
\* ascending, then the other keys in insertion order.
ObjectEntries(groups) ==
    LET idx == SelectSeq(groups, LAMBDA g : isArrayIndex(g.key))
        str == SelectSeq(groups, LAMBDA g : ~isArrayIndex(g.key))
    IN  sortAsc(idx, ArrayOf([i \in 1..Len(idx) |-> DigitsValue(idx[i].key)]))
            \o str

\* _.groupBy(data.value, 'artist_name') of prepareTreemapData, as entries.
groupedOf(tracks) ==
    ObjectEntries(groupByArtist(tracks, 1, Len(tracks), <<>>))

\* prepareTreemapData().children
prepareTreemapData(tracks) ==
    LET grouped  == groupedOf(tracks)
        children ==
            ArrayOf([i \in 1..Len(grouped) |->
                [name       |-> grouped[i].key,
                 value      |-> Len(grouped[i].tracks),
                 popularity |->
                     reduceMean(ArrayOf([k \in 1..Len(grouped[i].tracks) |->
                                    grouped[i].tracks[k].track_popularity]))]])
    IN  slice(sortDesc(children,
                       ArrayOf([i \in 1..Len(children) |-> children[i].value])),
              TopTreemapLimit)

(***************************************************************************)
(* SankeyDiagram: popularity bucketing                                     *)
(***************************************************************************)

getPopularityLevel_le(popularity) ==
    IF ~isNaN(popularity) /\ popularity <= 34 * Milli THEN "Low"
    ELSE IF ~isNaN(popularity) /\ popularity <= 67 * Milli THEN "Medium"
    ELSE "High"

getPopularityLevel(popularity) ==
    IF Lt(popularity, 34 * Milli) THEN "Low"
    ELSE IF Lt(popularity, 67 * Milli) THEN "Medium"
    ELSE "High"

(***************************************************************************)
(* The two halves of the state: a harness leaves the lifecycle idle, the   *)
(* lifecycle leaves the harness idle                                       *)
(***************************************************************************)

Zero == [width |-> 0, height |-> 0]

\* JavaScript's null.
Null == <<"null">>

\* An <svg> without children.
Blank == <<>>

LifeIdle ==
    /\ comp = "none" /\ file = <<>> /\ phase = "setup" /\ load = "idle"
    /\ data = <<>> /\ size = Zero /\ container = FALSE
    /\ listener = FALSE /\ timer = FALSE /\ observing = FALSE
    /\ chartType = "bar" /\ selectedArtist = Null
    /\ svg = Blank /\ drew = FALSE

PureIdle == pc = "idle" /\ fnIn = "none" /\ fnOut = "none"

(***************************************************************************)
(* Harness for getPopularityLevel: every popularity 0..100 in thousandths  *)
(***************************************************************************)

InitLevel ==
    /\ LifeIdle
    /\ pc = "in"
    /\ fnIn \in 0..(MaxPopularity * Milli)
    /\ fnOut = "none"

ClassifyLevel ==
    /\ pc = "in"
    /\ pc' = "out"
    /\ fnOut' = getPopularityLevel(fnIn)
    /\ UNCHANGED <<fnIn, lifeVars>>

NextLevel == ClassifyLevel

SpecLevel == InitLevel /\ [][NextLevel]_vars

\* C1: getPopularityLevel returns "Low" exactly on [0,34), "Medium" exactly on
\* [34,67) and "High" exactly on [67,100]; 33 and 33.999 are "Low", 34 and 66
\* are "Medium", 67 is "High".
C1_HalfOpenBuckets ==
    pc = "out" =>
        /\ fnOut \in {"Low", "Medium", "High"}
        /\ (fnOut = "Low") <=> (fnIn < 34 * Milli)
        /\ (fnOut = "Medium") <=> (34 * Milli <= fnIn /\ fnIn < 67 * Milli)
        /\ (fnOut = "High") <=> (fnIn >= 67 * Milli)
        /\ (fnIn \in {33 * Milli, 33999}) => fnOut = "Low"
        /\ (fnIn \in {34 * Milli, 66 * Milli}) => fnOut = "Medium"
        /\ (fnIn = 67 * Milli) => fnOut = "High"

C1_Witness ==
    pc = "out" /\ fnIn = 33999 /\ fnOut = "Low"

(***************************************************************************)
(* Harness for the genre normalisation and one step of the genre fold      *)
(***************************************************************************)

\* Longest raw genre string enumerated exhaustively.
MaxGenreLen == 4

GenreAlphabet == {"[", "]", "'", ",", "/", " ", "a", "b"}

StrPopRock ==
    <<"[", "'", "p", "o", "p", "'", " ", "/", " ", "'", "r", "o", "c", "k", "'", "]">>

StrPop == <<"p", "o", "p">>

StrRock == <<"r", "o", "c", "k">>

RawGenreStrings == SeqsUpTo(GenreAlphabet, MaxGenreLen) \cup {StrPopRock}

\* Maps the fold may meet: empty, and one with earlier entries.
PriorMaps ==
    { <<>>,
      << [genre |-> <<"a">>, count |-> 2, popularities |-> <<10 * Milli, NaN>>],
         [genre |-> StrPop, count |-> 1, popularities |-> <<40 * Milli>>] >> }

InitGenre ==
    /\ LifeIdle
    /\ pc = "in"
    /\ fnIn \in [raw : RawGenreStrings, map : PriorMaps, pop : {55 * Milli}]
    /\ fnOut = "none"

FoldGenre ==
    /\ pc = "in"
    /\ pc' = "out"
    /\ fnOut' = [keys |-> parseGenres(fnIn.raw),
                 map  |-> foldGenreRecord(fnIn.map,
                              [artist_genres |-> fnIn.raw,
                               track_popularity |-> fnIn.pop])]
    /\ UNCHANGED <<fnIn, lifeVars>>

NextGenre == FoldGenre

SpecGenre == InitGenre /\ [][NextGenre]_vars

RECURSIVE ScanTokens(_, _, _)
\* One pass over the raw string: brackets and quotes are dropped, ',' and '/'
\* end a token, a token is kept trimmed when something is left of it.
ScanTokens(s, cur, acc) ==
    LET emit == IF trim(cur) = <<>> THEN acc ELSE Append(acc, trim(cur))
    IN  IF s = <<>> THEN emit
        ELSE IF Head(s) \in {"[", "]", "'"} THEN ScanTokens(Tail(s), cur, acc)
        ELSE IF Head(s) \in {",", "/"} THEN ScanTokens(Tail(s), <<>>, emit)
        ELSE ScanTokens(Tail(s), Append(cur, Head(s)), acc)

NormalizedKeys(raw) == ScanTokens(raw, <<>>, <<>>)

Occurrences(keys, g) == Cardinality({i \in 1..Len(keys) : keys[i] = g})

CountOf(map, g) == IF mapHas(map, g) THEN map[mapIndex(map, g)].count ELSE 0

PopsOf(map, g) == IF mapHas(map, g) THEN map[mapIndex(map, g)].popularities ELSE <<>>

GenresOf(map) == {map[i].genre : i \in 1..Len(map)}

\* C8: the keys of a raw artist_genres string are its tokens after removing
\* '[', ']' and quotes, splitting on ',' and '/', trimming and dropping empty
\* tokens ("['pop' / 'rock']" gives pop, rock); each key produced adds exactly 1
\* to its genre's count and appends the record's track_popularity there only.
C8_GenreKeysAndFold ==
    pc = "out" =>
        LET keys   == fnOut.keys
            before == fnIn.map
            after  == fnOut.map
        IN  /\ keys = NormalizedKeys(fnIn.raw)
            /\ (fnIn.raw = StrPopRock) => keys = <<StrPop, StrRock>>
            /\ GenresOf(after) = GenresOf(before) \cup {keys[i] : i \in 1..Len(keys)}
            /\ Len(after) = Cardinality(GenresOf(after))
            /\ SubSeq([i \in 1..Len(after) |-> after[i].genre], 1, Len(before))
                   = [i \in 1..Len(before) |-> before[i].genre]
            /\ \A g \in GenresOf(after) :
                  /\ CountOf(after, g) = CountOf(before, g) + Occurrences(keys, g)
                  /\ PopsOf(after, g) =
                        PopsOf(before, g)
                            \o [k \in 1..Occurrences(keys, g) |-> fnIn.pop]

C8_Witness ==
    /\ pc = "out"
    /\ fnIn.raw = StrPopRock
    /\ fnIn.map # <<>>
    /\ fnOut.keys = <<StrPop, StrRock>>
    /\ CountOf(fnOut.map, StrPop) = 2
    /\ CountOf(fnOut.map, StrRock) = 1

(***************************************************************************)
(* Harness for the rankings: loadData of the bar charts and the treemap's  *)
(* prepareTreemapData on whole datasets                                    *)
(***************************************************************************)

Row(name, tp, ap, fol, dur, ex, genres) ==
    [artist_name       |-> name,
     track_popularity  |-> tp,
     artist_popularity |-> ap,
     artist_followers  |-> fol,
     track_duration_ms |-> dur,
     explicit          |-> ex,
     artist_genres     |-> genres]

DigitChar(d) ==
    CASE d = 0 -> "0" [] d = 1 -> "1" [] d = 2 -> "2" [] d = 3 -> "3"
      [] d = 4 -> "4" [] d = 5 -> "5" [] d = 6 -> "6" [] d = 7 -> "7"
      [] d = 8 -> "8" [] d = 9 -> "9"

RECURSIVE DecimalString(_)
DecimalString(n) ==
    IF n < 10 THEN <<DigitChar(n)>>
    ELSE Append(DecimalString(n \div 10), DigitChar(n % 10))

\* Longest dataset enumerated exhaustively over RowPool.
MaxRankRows == 3

\* Most artists in a generated dataset (more than every top-N limit).
MaxGroups == 42

\* Number of count patterns of the generated datasets.
MaxPattern == 3

\* Rows the exhaustive datasets are made of: a clean row, a row without
\* followers, a row whose track popularity is not a number, a row whose
\* duration is not a number and that lists no genre, and a row whose track
\* popularity cell is empty.
RowPool ==
    { Row(<<"B">>, <<"1", "0">>, <<"5", "0">>, <<"5">>, <<"9">>, StrTrue,
          <<"[", "'", "a", "'", ",", " ", "'", "b", "'", "]">>),
      Row(<<"7">>, <<"2", "0">>, <<"5", "0">>, <<"0">>, <<"9">>, <<>>, <<"b">>),
      Row(<<"A">>, <<"x">>, <<"5", "0">>, <<"5">>, <<"9">>, <<>>, <<"a", "/", "b">>),
      Row(<<"3">>, <<"3", "0">>, <<"5", "0">>, <<"5">>, <<"x">>, <<>>, <<>>),
      Row(<<"C">>, <<>>, <<"5", "0">>, <<"5">>, <<"9">>, <<>>, <<"a">>) }

\* Artist i of a generated dataset: every second name is a numeral.
ArtistName(i) ==
    IF i % 2 = 0 THEN DecimalString(i) ELSE <<"a">> \o DecimalString(i)

GenreName(i) == <<"g">> \o DecimalString(i)

\* Row of artist i: it lists the genres i and i + 1.
GeneratedRow(i) ==
    Row(ArtistName(i), DecimalString(i), <<"5", "0">>, <<"5">>, <<"9">>, <<>>,
        <<"[", "'">> \o GenreName(i) \o <<"'", ",", " ", "'">>
            \o GenreName(i + 1) \o <<"'", "]">>)

RECURSIVE GeneratedRows(_, _, _)
\* Artists i..n in turn, artist i with 1 + (i * k mod 3) rows.
GeneratedRows(i, n, k) ==
    IF i > n THEN <<>>
    ELSE IF i = n THEN [j \in 1..(1 + ((i * k) % 3)) |-> GeneratedRow(i)]
    ELSE LET mid == (i + n) \div 2
         IN  GeneratedRows(i, mid, k) \o GeneratedRows(mid + 1, n, k)

\* Three rows of artist "A" with popularities 10, 20 and 30 and one row of
\* artist "B" with popularity 90.
ExampleRows ==
    { Row(<<"A">>, <<"1", "0">>, <<"5", "0">>, <<"5">>, <<"9">>, <<>>, <<"a">>),
      Row(<<"A">>, <<"2", "0">>, <<"5", "0">>, <<"5">>, <<"9">>, <<>>, <<"a">>),
      Row(<<"A">>, <<"3", "0">>, <<"5", "0">>, <<"5">>, <<"9">>, <<>>, <<"a">>),
      Row(<<"B">>, <<"9", "0">>, <<"5", "0">>, <<"5">>, <<"9">>, <<>>, <<"b">>) }

\* The four rows in every order.
ExampleDatasets ==
    {ArrayOf(f) : f \in {g \in [1..4 -> ExampleRows] :
                            \A i, j \in 1..4 : g[i] = g[j] => i = j}}

RankDatasets ==
    SeqsUpTo(RowPool, MaxRankRows)
        \cup {GeneratedRows(1, n, k) : n \in 0..MaxGroups, k \in 1..MaxPattern}
        \cup ExampleDatasets

RankComps == {"ArtistsBar", "GenreBar", "GenreBarPie", "Treemap"}

\* The ranked subset a component computes from a dataset, as (key, count,
\* mean of track_popularity).
Ranked(c, csv) ==
    CASE c = "ArtistsBar" ->
            LET r == ArtistsLoadData(csv)
            IN  ArrayOf([i \in 1..Len(r) |->
                    [key |-> r[i].artist_name, count |-> r[i].track_count,
                     mean |-> r[i].avg_popularity]])
      [] c \in {"GenreBar", "GenreBarPie"} ->
            LET r == GenreLoadData(csv)
            IN  ArrayOf([i \in 1..Len(r) |->
                    [key |-> r[i].genre, count |-> r[i].track_count,
                     mean |-> r[i].avg_popularity]])
      [] c = "Treemap" ->
            LET r == prepareTreemapData(SummaryLoadData(csv))
            IN  ArrayOf([i \in 1..Len(r) |->
                    [key |-> r[i].name, count |-> r[i].value,
                     mean |-> r[i].popularity]])

RankLimit(c) ==
    CASE c = "ArtistsBar" -> TopArtistsLimit
      [] c \in {"GenreBar", "GenreBarPie"} -> TopGenresLimit
      [] c = "Treemap" -> TopTreemapLimit

InitRank ==
    /\ LifeIdle
    /\ pc = "in"
    /\ fnIn \in [comp : RankComps, csv : RankDatasets]
    /\ fnOut = "none"

RankDataset ==
    /\ pc = "in"
    /\ pc' = "out"
    /\ fnOut' = Ranked(fnIn.comp, fnIn.csv)
    /\ UNCHANGED <<fnIn, lifeVars>>

NextRank == RankDataset

SpecRank == InitRank /\ [][NextRank]_vars

RECURSIVE KeysFrom(_, _, _, _)
\* Every key the rows i..n of a dataset contribute to component c, in order:
\* a row's artist name (the treemap skips the rows its filter drops), or the
\* tokens of its genre string.
KeysFrom(c, csv, i, n) ==
    IF i > n THEN <<>>
    ELSE IF i = n
    THEN (IF c \in {"GenreBar", "GenreBarPie"}
          THEN NormalizedKeys(csv[i].artist_genres)
          ELSE IF c = "Treemap" /\ ~PopularityKeep(SummaryRow(csv[i]))
               THEN <<>>
               ELSE <<csv[i].artist_name>>)
    ELSE LET mid == (i + n) \div 2
         IN  KeysFrom(c, csv, i, mid) \o KeysFrom(c, csv, mid + 1, n)

KeySet(flat) == {flat[k] : k \in 1..Len(flat)}

\* Records counted under key g.
KeyCount(flat, g) == Cardinality({k \in 1..Len(flat) : flat[k] = g})

\* Place of the first contribution to key g.
FirstSeen(flat, g) ==
    CHOOSE k \in 1..Len(flat) : flat[k] = g /\ \A m \in 1..(k - 1) : flat[m] # g

Min(a, b) == IF a < b THEN a ELSE b

\* C9: the ranked subset is the groups sorted by descending track count and cut
\* to the visualisation's limit (15, 25, 40): its length is
\* min(limit, number of groups), no dropped group has more tracks than a kept
\* one, and with no more groups than the limit every group is returned.
C9_TopNByCount ==
    pc = "out" =>
        LET c    == fnIn.comp
            flat == KeysFrom(c, fnIn.csv, 1, Len(fnIn.csv))
            all  == KeySet(flat)
            kept == {fnOut[i].key : i \in 1..Len(fnOut)}
        IN  /\ Len(fnOut) = Min(RankLimit(c), Cardinality(all))
            /\ Cardinality(kept) = Len(fnOut)
            /\ kept \subseteq all
            /\ \A i \in 1..Len(fnOut) : fnOut[i].count = KeyCount(flat, fnOut[i].key)
            /\ \A i \in 1..(Len(fnOut) - 1) : fnOut[i].count >= fnOut[i + 1].count
            /\ \A g \in all \ kept :
                  LET n == KeyCount(flat, g)
                  IN  \A i \in 1..Len(fnOut) : fnOut[i].count >= n
            /\ (Cardinality(all) <= RankLimit(c)) => kept = all

C9_Witness ==
    /\ pc = "out"
    /\ fnIn.comp = "Treemap"
    /\ Len(fnOut) = TopTreemapLimit
    /\ Cardinality(KeySet(KeysFrom("Treemap", fnIn.csv, 1, Len(fnIn.csv)))) > TopTreemapLimit
    /\ fnOut[1].count > fnOut[TopTreemapLimit].count

\* C10: groups with equal track count keep their first-insertion order in the
\* ranked output (the ranking is stable), for the bar charts and the treemap.
C10_TiesKeepInsertionOrder ==
    pc = "out" =>
        LET flat == KeysFrom(fnIn.comp, fnIn.csv, 1, Len(fnIn.csv))
        IN  \A i, j \in 1..Len(fnOut) :
                (i < j /\ fnOut[i].count = fnOut[j].count) =>
                    FirstSeen(flat, fnOut[i].key) < FirstSeen(flat, fnOut[j].key)

RECURSIVE PairsFrom(_, _, _, _)
\* Every (key, track popularity) the rows i..n of a dataset contribute to
\* component c, in order.
PairsFrom(c, csv, i, n) ==
    IF i > n THEN <<>>
    ELSE IF i = n
    THEN LET tp   == ToNumber(csv[i].track_popularity)
             keys == KeysFrom(c, csv, i, i)
         IN  ArrayOf([k \in 1..Len(keys) |-> [key |-> keys[k], val |-> tp]])
    ELSE LET mid == (i + n) \div 2
         IN  PairsFrom(c, csv, i, mid) \o PairsFrom(c, csv, mid + 1, n)

\* Sum of the track popularities counted under key g (NaN as soon as one of
\* them is NaN).
KeySum(pairs, g) ==
    LET mine == SelectSeq(pairs, LAMBDA q : q.key = g)
    IN  SumSeq(ArrayOf([k \in 1..Len(mine) |-> mine[k].val]))

\* C11: every emitted group has count >= 1 and its reported mean of
\* track_popularity is the sum over exactly the records counted in the group,
\* divided by that count.
C11_MeanIsSumOverCount ==
    pc = "out" =>
        LET pairs == PairsFrom(fnIn.comp, fnIn.csv, 1, Len(fnIn.csv))
        IN  \A i \in 1..Len(fnOut) :
                LET sum == KeySum(pairs, fnOut[i].key)
                    m   == fnOut[i].mean
                IN  /\ fnOut[i].count >= 1
                    /\ m.den # 0
                    /\ isNaN(sum) <=> isNaN(m.num)
                    /\ ~isNaN(sum) => m.num * fnOut[i].count = sum * m.den

\* The coerced measures of a CSV row that component c aggregates, averages
\* or encodes.
Measures(c, d) ==
    LET tp  == ToNumber(d.track_popularity)
        ap  == ToNumber(d.artist_popularity)
        fol == ToNumber(d.artist_followers)
        dur == ToNumber(d.track_duration_ms)
    IN  CASE c \in {"Sparklines", "Sankey"}          -> {tp, ap}
          [] c = "SummaryButtons"                    -> {tp, ap, dur}
          [] c = "OverviewScatter"                   -> {tp, ap, fol}
          [] c \in {"Bubble", "BubbleDark"}           -> {dur, tp, fol}
          [] c = "ArtistsBar"                        -> {tp, fol}
          [] c \in {"GenreBar", "GenreBarPie", "Treemap"} -> {tp}
          [] c = "Parallel"                          -> {dur, tp, fol, ap}

\* The rows of a file all of whose measures are numbers for component c.
ValidRows(c, rows) ==
    SelectSeq(rows, LAMBDA d : \A v \in Measures(c, d) : ~isNaN(v))

\* The counts of the groups a component has built from a dataset, before the
\* sort and the truncation.
GroupCounts(c, csv) ==
    CASE c = "ArtistsBar" ->
            LET g == groupedMap(csv)
            IN  ArrayOf([i \in 1..Len(g) |-> Len(g[i].tracks)])
      [] c \in {"GenreBar", "GenreBarPie"} ->
            LET g == genreMapOf(csv)
            IN  ArrayOf([i \in 1..Len(g) |-> g[i].count])
      [] c = "Treemap" ->
            LET g == groupedOf(SummaryLoadData(csv))
            IN  ArrayOf([i \in 1..Len(g) |-> Len(g[i].tracks)])

\* The rows of a dataset that are valid for component c: every measure is a
\* number and the component's guard (the treemap's artist_popularity > 0)
\* holds.
ValidRecords(c, csv) ==
    SelectSeq(ValidRows(c, csv),
              LAMBDA d : c = "Treemap" => PopularityKeep(SummaryRow(d)))

\* C12 as stated: whenever at least one group is built, the counts of all
\* groups, before truncation, add up to at least the number of valid input
\* records.
C12_CountsCoverValidRecords ==
    pc = "out" =>
        LET counts == GroupCounts(fnIn.comp, fnIn.csv)
        IN  counts # <<>> =>
                SumSeq(counts) >= Len(ValidRecords(fnIn.comp, fnIn.csv))

\* C12 amended: whenever at least one group is built, the counts of all
\* groups, before truncation, add up to at least the number of valid input
\* records that carry at least one grouping key (an artist name, or at least
\* one genre once the genre string is parsed).
C12_CountsCoverKeyedRecords ==
    pc = "out" =>
        LET c      == fnIn.comp
            counts == GroupCounts(c, fnIn.csv)
            keyed  == SelectSeq(ValidRecords(c, fnIn.csv),
                                LAMBDA d : KeysFrom(c, <<d>>, 1, 1) # <<>>)
        IN  counts # <<>> => SumSeq(counts) >= Len(keyed)

\* A genre chart has folded two valid records that share a genre, and a record
\* of two genres: the counts exceed the number of records.
C12_Witness ==
    /\ pc = "out"
    /\ fnIn.comp = "GenreBar"
    /\ Len(ValidRecords("GenreBar", fnIn.csv)) = 2
    /\ \E i \in 1..Len(fnOut) : fnOut[i].count = 2
    /\ SumSeq(GroupCounts("GenreBar", fnIn.csv)) = 3

\* C14: three records of artist "A" with track popularities 10, 20 and 30 and
\* one record of artist "B" with 90, grouped by artist and ranked by count,
\* give exactly A with count 3 and mean 20, then B with count 1 and mean 90.
C14_ExampleRanking ==
    (pc = "out" /\ fnIn.comp \in {"ArtistsBar", "Treemap"}
                /\ fnIn.csv \in ExampleDatasets) =>
        /\ Len(fnOut) = 2
        /\ fnOut[1].key = <<"A">> /\ fnOut[1].count = 3
        /\ fnOut[1].mean.den # 0
        /\ fnOut[1].mean.num = 20 * Milli * fnOut[1].mean.den
        /\ fnOut[2].key = <<"B">> /\ fnOut[2].count = 1
        /\ fnOut[2].mean.den # 0
        /\ fnOut[2].mean.num = 90 * Milli * fnOut[2].mean.den

\* The example has been ranked from a file that lists the record of "B"
\* first.
C14_Witness ==
    /\ pc = "out"
    /\ fnIn.comp = "ArtistsBar"
    /\ fnIn.csv \in ExampleDatasets
    /\ fnIn.csv[1].artist_name = <<"B">>
    /\ Len(fnOut) = 2 /\ fnOut[1].count = 3

(***************************************************************************)
(* SankeyDiagram: prepareSankeyData, applied to every small record sequence *)
(***************************************************************************)

\* The artistMap and trackMap objects of prepareSankeyData.
artistMap(level) ==
    CASE level = "Low" -> 0 [] level = "Medium" -> 1 [] level = "High" -> 2

trackMap(level) ==
    CASE level = "Low" -> 3 [] level = "Medium" -> 4 [] level = "High" -> 5

filteredData_all(d, sel) == d

\* The records prepareSankeyData considers: those of the selected artist when
\* selectedArtist is truthy (neither null nor the empty string), else all.
filteredData(d, sel) ==
    IF sel # Null /\ sel # <<>>
    THEN SelectSeq(d, LAMBDA r : r.artist_name = sel)
    ELSE d

linkHas(linkMap, key) == \E i \in 1..Len(linkMap) : linkMap[i].key = key

linkIndex(linkMap, key) == CHOOSE i \in 1..Len(linkMap) : linkMap[i].key = key

countFlow_overwrite(linkMap, d) ==
    LET key == <<getPopularityLevel(d.artist_popularity),
                 getPopularityLevel(d.track_popularity)>>
    IN  IF linkHas(linkMap, key)
        THEN [linkMap EXCEPT ![linkIndex(linkMap, key)].value = 1]
        ELSE Append(linkMap, [key |-> key, value |-> 1])

\* One step of filteredData.forEach: linkMap.set(key, (linkMap.get(key) || 0)
\* + 1) under the key "<artist level>-><track level>".
countFlow(linkMap, d) ==
    LET key == <<getPopularityLevel(d.artist_popularity),
                 getPopularityLevel(d.track_popularity)>>
    IN  IF linkHas(linkMap, key)
        THEN [linkMap EXCEPT ![linkIndex(linkMap, key)].value = @ + 1]
        ELSE Append(linkMap, [key |-> key, value |-> 1])

RECURSIVE countFlows(_, _)
countFlows(linkMap, rows) ==
    IF rows = <<>> THEN linkMap
    ELSE countFlows(countFlow(linkMap, Head(rows)), Tail(rows))

\* prepareSankeyData().links
prepareSankeyData(d, sel) ==
    LET linkMap == countFlows(<<>>, filteredData(d, sel))
    IN  ArrayOf([i \in 1..Len(linkMap) |->
            [source |-> artistMap(linkMap[i].key[1]),
             target |-> trackMap(linkMap[i].key[2]),
             value  |-> linkMap[i].value]])

MaxSankeyRows == 3

\* One popularity in each bucket, and the bucket borders the records of a
\* loaded file can sit on.
SankeyArtistPops == {33999, 34 * Milli, 67 * Milli}

SankeyTrackPops == {0, 66 * Milli, 67 * Milli}

SankeyNames == {<<"A">>, <<"B">>}

\* The records loadData of the Sankey diagram retains.
SankeyRecords ==
    [track_popularity : SankeyTrackPops, artist_popularity : SankeyArtistPops,
     artist_name : SankeyNames]

InitSankey ==
    /\ LifeIdle
    /\ pc = "in"
    /\ fnIn \in [data : SeqsUpTo(SankeyRecords, MaxSankeyRows),
                 selectedArtist : {Null, <<>>, <<"A">>}]
    /\ fnOut = "none"

PrepareSankey ==
    /\ pc = "in"
    /\ pc' = "out"
    /\ fnOut' = prepareSankeyData(fnIn.data, fnIn.selectedArtist)
    /\ UNCHANGED <<fnIn, lifeVars>>

NextSankey == PrepareSankey

SpecSankey == InitSankey /\ [][NextSankey]_vars

\* The index of the bucket of a popularity: 0 below 34, 1 below 67, else 2.
BucketOf(p) == IF p < 34 * Milli THEN 0 ELSE IF p < 67 * Milli THEN 1 ELSE 2

\* The positions of the records the diagram considers.
Considered ==
    {i \in 1..Len(fnIn.data) :
        fnIn.selectedArtist \in {Null, <<>>}
            \/ fnIn.data[i].artist_name = fnIn.selectedArtist}

\* The considered records with artist bucket a and track bucket t.
Flow(a, t) ==
    {i \in Considered : /\ BucketOf(fnIn.data[i].artist_popularity) = a
                        /\ BucketOf(fnIn.data[i].track_popularity) = t}

\* C13: a link from artist bucket a to track bucket t carries the number of
\* considered records in these two buckets; a pair of buckets without a
\* record has no link, a pair with records has exactly one; sources are in
\* 0..2 and targets in 3..5; the link values add up to the number of
\* considered records.
C13_LinksCountFlows ==
    pc = "out" =>
        /\ \A i \in 1..Len(fnOut) :
                /\ fnOut[i].source \in 0..2
                /\ fnOut[i].target \in 3..5
                /\ fnOut[i].value = Cardinality(Flow(fnOut[i].source,
                                                     fnOut[i].target - 3))
                /\ fnOut[i].value >= 1
        /\ \A a \in 0..2, t \in 0..2 :
                Cardinality({i \in 1..Len(fnOut) :
                                fnOut[i].source = a /\ fnOut[i].target = t + 3})
                    = IF Flow(a, t) = {} THEN 0 ELSE 1
        /\ SumSeq(ArrayOf([i \in 1..Len(fnOut) |-> fnOut[i].value]))
                = Cardinality(Considered)

\* An artist is selected, two of the artist's records share a flow, and a
\* record of another artist is left out.
C13_Witness ==
    /\ pc = "out"
    /\ fnIn.selectedArtist = <<"A">>
    /\ Len(fnIn.data) = 3
    /\ Cardinality(Considered) = 2
    /\ fnOut = <<[source |-> 0, target |-> 5, value |-> 2]>>

(***************************************************************************)
(* SparklinesSummary: stats and calculateCorrelation                       *)
(***************************************************************************)

RECURSIVE reduceSum(_)
\* s.reduce((a, b) => a + b, 0) over signed numbers.
reduceSum(s) == IF s = <<>> THEN 0 ELSE Head(s) + reduceSum(Tail(s))

\* What calculateCorrelation gives: a thrown TypeError, NaN, or the number
\* of sign neg and of square num / den.
Threw == [kind |-> "TypeError", neg |-> FALSE, num |-> 0, den |-> 1]

NotANumber == [kind |-> "NaN", neg |-> FALSE, num |-> 0, den |-> 1]

Number(neg, num, den) == [kind |-> "number", neg |-> neg, num |-> num, den |-> den]

calculateCorrelation_sampleCov(x, y) ==
    LET n == Len(x)
    IN  IF n = 0 THEN Threw
        ELSE LET sumX == reduceSum(x)
                 sumY == reduceSum(y)
                 dx   == [i \in 1..n |-> n * x[i] - sumX]
                 dy   == [i \in 1..n |-> n * y[i] - sumY]
                 cov  == Ratio(reduceSum(ArrayOf([i \in 1..n |-> dx[i] * dy[i]])),
                               IF n > 1 THEN n - 1 ELSE n)
                 varX == Ratio(reduceSum(ArrayOf([i \in 1..n |-> dx[i] * dx[i]])), n)
                 varY == Ratio(reduceSum(ArrayOf([i \in 1..n |-> dy[i] * dy[i]])), n)
             IN  IF varX.num = 0 \/ varY.num = 0 THEN NotANumber
                 ELSE Number(cov.num < 0,
                             cov.num * cov.num * varX.den * varY.den,
                             cov.den * cov.den * varX.num * varY.num)

\* calculateCorrelation(x, y).  x.reduce without an initial value throws on
\* an empty array.  The deviations are kept exact as n * (x[i] - meanX), so
\* cov, stdX^2 and stdY^2 are the ratios below in units of 1 / n^2; cov /
\* (stdX * stdY) is kept as its sign and its square, and is 0 / 0 = NaN when
\* a deviation sum is 0.
calculateCorrelation(x, y) ==
    LET n == Len(x)
    IN  IF n = 0 THEN Threw
        ELSE LET sumX == reduceSum(x)
                 sumY == reduceSum(y)
                 dx   == [i \in 1..n |-> n * x[i] - sumX]
                 dy   == [i \in 1..n |-> n * y[i] - sumY]
                 cov  == Ratio(reduceSum(ArrayOf([i \in 1..n |-> dx[i] * dy[i]])), n)
                 varX == Ratio(reduceSum(ArrayOf([i \in 1..n |-> dx[i] * dx[i]])), n)
                 varY == Ratio(reduceSum(ArrayOf([i \in 1..n |-> dy[i] * dy[i]])), n)
             IN  IF varX.num = 0 \/ varY.num = 0 THEN NotANumber
                 ELSE Number(cov.num < 0,
                             cov.num * cov.num * varX.den * varY.den,
                             cov.den * cov.den * varX.num * varY.num)

RECURSIVE isqrt(_)
\* The largest integer whose square is at most q.
isqrt(q) ==
    IF q < 2 THEN q
    ELSE LET t == 2 * isqrt(q \div 4)
         IN  IF (t + 1) * (t + 1) <= q THEN t + 1 ELSE t

\* r.toFixed(2): "NaN" for NaN, else the sign and the number of hundredths
\* nearest to |r| (the larger one on a tie).  With q = 40000 * num / den,
\* worked out by long division, the hundredths are (isqrt(q) + 1) div 2.
toFixed2(r) ==
    IF r.kind # "number" THEN [kind |-> r.kind, neg |-> FALSE, hundredths |-> 0]
    ELSE LET q0 == r.num \div r.den
             r0 == r.num % r.den
             q1 == (200 * r0) \div r.den
             r1 == (200 * r0) % r.den
             q2 == (200 * r1) \div r.den
             q  == 40000 * q0 + 200 * q1 + q2
         IN  [kind |-> "number", neg |-> r.neg,
              hundredths |-> (isqrt(q) + 1) \div 2]

\* The value of stats while data is empty.
NoStats ==
    [isNull |-> TRUE, totalTracks |-> 0,
     correlation |-> [kind |-> "NaN", neg |-> FALSE, hundredths |-> 0]]

stats_noGuard(d) ==
    LET trackPops  == ArrayOf([i \in 1..Len(d) |-> d[i].track_popularity])
        artistPops == ArrayOf([i \in 1..Len(d) |-> d[i].artist_popularity])
    IN  [isNull |-> FALSE, totalTracks |-> Len(d),
         correlation |-> toFixed2(calculateCorrelation(artistPops, trackPops))]

\* The computed stats: null while data is empty, else the record with the
\* number of tracks and the correlation of the two popularities to two
\* decimals.
stats(d) ==
    IF d = <<>> THEN NoStats
    ELSE LET trackPops  == ArrayOf([i \in 1..Len(d) |-> d[i].track_popularity])
             artistPops == ArrayOf([i \in 1..Len(d) |-> d[i].artist_popularity])
         IN  [isNull |-> FALSE, totalTracks |-> Len(d),
              correlation |-> toFixed2(calculateCorrelation(artistPops, trackPops))]

\* Longest series and largest value (in thousandths: the coefficient does
\* not depend on the unit) of the series enumerated.
MaxSeriesLen == 3

MaxSeriesValue == 2

SeriesPairs ==
    UNION {[x : [1..n -> 0..MaxSeriesValue], y : [1..n -> 0..MaxSeriesValue]]
               : n \in 0..MaxSeriesLen}

InitCorr ==
    /\ LifeIdle
    /\ pc = "in"
    /\ fnIn \in {[x |-> ArrayOf(q.x), y |-> ArrayOf(q.y)] : q \in SeriesPairs}
    /\ fnOut = "none"

\* calculateCorrelation applied to the two series, in both orders.
Correlate ==
    /\ pc = "in"
    /\ pc' = "corr"
    /\ fnOut' = [xy |-> calculateCorrelation(fnIn.x, fnIn.y),
                 yx |-> calculateCorrelation(fnIn.y, fnIn.x)]
    /\ UNCHANGED <<fnIn, lifeVars>>

\* The records whose artist popularities are x and track popularities y.
SeriesData(x, y) ==
    ArrayOf([i \in 1..Len(x) |->
        [artist_popularity |-> x[i], track_popularity |-> y[i]]])

\* stats read over loaded records (their artist popularity is positive).
ReadStats ==
    /\ pc = "in"
    /\ \A i \in 1..Len(fnIn.x) : fnIn.x[i] > 0
    /\ pc' = "stats"
    /\ fnOut' = stats(SeriesData(fnIn.x, fnIn.y))
    /\ UNCHANGED <<fnIn, lifeVars>>

\* stats.value.correlation > 0.3: the string of toFixed(2) is converted to a
\* number, "NaN" to NaN, and NaN > 0.3 is false.
aboveThreshold(correlation) ==
    /\ correlation.kind = "number"
    /\ ~correlation.neg
    /\ correlation.hundredths > 30

\* The fill of the correlation text and of the correlation button.
correlationFill(correlation) ==
    IF aboveThreshold(correlation) THEN "#27AE60" ELSE "#E67E22"

\* The arrow after the correlation text.
correlationArrow(correlation) ==
    IF aboveThreshold(correlation) THEN "up" ELSE "right"

\* initChart of the summary view draws the correlation line from stats.
DrawCorrelation ==
    /\ pc = "stats"
    /\ ~fnOut.isNull
    /\ pc' = "drawn"
    /\ fnOut' = [correlation |-> fnOut.correlation,
                 fill  |-> correlationFill(fnOut.correlation),
                 arrow |-> correlationArrow(fnOut.correlation)]
    /\ UNCHANGED <<fnIn, lifeVars>>

NextCorr == Correlate \/ ReadStats \/ DrawCorrelation

SpecCorr == InitCorr /\ [][NextCorr]_vars

\* A series all of whose values are equal.
IsConstant(s) == \A i, j \in 1..Len(s) : s[i] = s[j]

\* n * sum(a[i] * b[i]) - sum(a) * sum(b)
CrossMoment(a, b) ==
    Len(a) * reduceSum(ArrayOf([i \in 1..Len(a) |-> a[i] * b[i]]))
        - reduceSum(a) * reduceSum(b)

C18_ConstantIsNaN ==
    /\ (pc = "corr" /\ Len(fnIn.x) >= 1) =>
            /\ fnOut.xy.kind # "TypeError"
            /\ (IsConstant(fnIn.x) \/ IsConstant(fnIn.y)) => fnOut.xy.kind = "NaN"
    /\ pc = "stats" =>
            /\ fnOut.isNull <=> fnIn.x = <<>>
            /\ fnOut.correlation.kind # "TypeError"
            /\ (fnIn.x # <<>> /\ (IsConstant(fnIn.x) \/ IsConstant(fnIn.y)))
                    => fnOut.correlation.kind = "NaN"

\* calculateCorrelation has been given a constant series of three values and
\* a series that varies.
C18_Witness ==
    /\ pc = "corr"
    /\ Len(fnIn.x) = 3
    /\ IsConstant(fnIn.x) /\ ~IsConstant(fnIn.y)
    /\ fnOut.xy.kind = "NaN"

\* The defined correlations to two decimals that are at most 0.3.
AtMostThreshold ==
    {c \in [kind : {"number"}, neg : BOOLEAN, hundredths : 0..100] :
        c.neg \/ c.hundredths <= 30}

\* C19: the correlation line drawn for an undefined correlation has a colour
\* and an arrow of its own: neither is the one drawn for a defined correlation
\* that is at most 0.3.
C19_UndefinedCorrelationBranch ==
    (pc = "drawn" /\ fnOut.correlation.kind = "NaN") =>
        \A c \in AtMostThreshold :
            /\ fnOut.fill # correlationFill(c)
            /\ fnOut.arrow # correlationArrow(c)

(***************************************************************************)
(* Lifecycle of one component instance: mount, load, resize, unmount       *)
(***************************************************************************)

Components ==
    {"Sparklines", "SummaryButtons", "OverviewScatter", "Bubble", "BubbleDark",
     "ArtistsBar", "GenreBar", "GenreBarPie", "Treemap", "Parallel", "Sankey"}

\* Components that also attach a ResizeObserver to their container.
hasObserver(c) == c \in {"Sparklines", "SummaryButtons", "Treemap", "Sankey"}

\* Components with watch(() => canRender.value) and watch(() => size.value);
\* the others have one watch([data, size, ...]).
watchesCanRender(c) == c \in {"GenreBar", "GenreBarPie", "Parallel"}

\* Components whose initChart returns after clearing when nothing can be drawn.
initChartGuards(c) ==
    c \in {"Sparklines", "SummaryButtons", "Treemap", "Parallel", "Sankey"}

\* data.value after loadData resolved.
loadData(c, rows) ==
    CASE c \in {"Sparklines", "OverviewScatter", "Treemap"} -> SummaryLoadData(rows)
      [] c = "SummaryButtons"                -> DurationLoadData(rows)
      [] c \in {"Bubble", "BubbleDark"}       -> BubbleLoadData(rows)
      [] c = "ArtistsBar"                    -> ArtistsLoadData(rows)
      [] c \in {"GenreBar", "GenreBarPie"}    -> GenreLoadData(rows)
      [] c = "Parallel"                      -> ParallelLoadData(rows)
      [] c = "Sankey"                        -> SankeyLoadData(rows)

canRender_dataOnly(d, s) == d # <<>>

canRender_sizeOnly(d, s) == s.width > 0 /\ s.height > 0

\* !isEmpty(data.value) && size.value.width > 0 && size.value.height > 0
canRender(d, s) == d # <<>> /\ s.width > 0 /\ s.height > 0

onResize_noGuard(target, b, s) == b

\* size.value after onResize(): untouched when the container ref is null.
onResize(target, b, s) == IF ~target THEN s ELSE b

watchRuns_noDataWatch(c, dataSet, sizeSet, viewSet, before, after) ==
    IF watchesCanRender(c)
    THEN sizeSet \/ before # after \/ viewSet
    ELSE sizeSet \/ viewSet

watchRuns_noCanRenderWatch(c, dataSet, sizeSet, viewSet, before, after) ==
    IF watchesCanRender(c)
    THEN sizeSet \/ viewSet
    ELSE dataSet \/ sizeSet \/ viewSet

watchRuns_noSizeWatch(c, dataSet, sizeSet, viewSet, before, after) ==
    IF watchesCanRender(c)
    THEN before # after \/ viewSet
    ELSE dataSet \/ sizeSet \/ viewSet

\* Whether a watcher callback is queued by a step that assigned data.value
\* (dataSet), assigned size.value (sizeSet) or changed chartType /
\* selectedArtist (viewSet), canRender going from before to after.
watchRuns(c, dataSet, sizeSet, viewSet, before, after) ==
    IF watchesCanRender(c)
    THEN sizeSet \/ before # after \/ viewSet
    ELSE dataSet \/ sizeSet \/ viewSet

selectAllRemove_keeps(children) == children

\* svg.selectAll('*').remove(): no child is left.
selectAllRemove(children) == Blank

\* The children of the <svg> after initChart() ran on the children prev:
\* cleared, then what is drawn from the current values appended.
initChart(c, prev, d, s, ct, sel) ==
    LET cleared == selectAllRemove(prev)
    IN  IF initChartGuards(c) /\ ~canRender(d, s) THEN cleared
        ELSE Append(cleared,
                    [data |-> d, size |-> s, chartType |-> ct,
                     selectedArtist |-> sel])

\* The flush of the watchers after a step: the callback calls initChart when
\* canRender holds; the watchers are stopped once the component is unmounted.
Flush(dataSet, sizeSet, viewSet) ==
    IF /\ phase' = "mounted"
       /\ watchRuns(comp, dataSet, sizeSet, viewSet,
                    canRender(data, size), canRender(data', size'))
       /\ canRender(data', size')
    THEN /\ svg' = initChart(comp, svg, data', size', chartType', selectedArtist')
         /\ drew' = TRUE
    ELSE /\ svg' = svg
         /\ drew' = FALSE

\* Longest CSV file of the lifecycle.
MaxRows == 2

\* Largest clientWidth and clientHeight of the container.
MaxWidth == 2

MaxHeight == 1

Boxes == [width : 0..MaxWidth, height : 0..MaxHeight]

ArtistNames == {<<"B">>}

\* Values of the App's selectedArtist: an artist name, the empty name, null.
Selections == ArtistNames \cup {<<>>, Null}

\* State after setup(): refs at their initial values, nothing mounted.
Init ==
    /\ PureIdle
    /\ comp \in Components
    /\ file \in SeqsUpTo(RowPool, MaxRows)
    /\ phase = "setup" /\ load = "idle"
    /\ data = <<>> /\ size = Zero /\ container = FALSE
    /\ listener = FALSE /\ timer = FALSE /\ observing = FALSE
    /\ chartType = "bar" /\ selectedArtist = Null
    /\ svg = Blank /\ drew = FALSE

\* The onMounted hooks, the container being laid out with box b: loadData()
\* is started, onResize() publishes the box, the window listener is added
\* and, where there is one, the observer starts observing.
Mount(b) ==
    /\ phase = "setup"
    /\ phase' = "mounted"
    /\ container' = TRUE
    /\ load' = "pending"
    /\ size' = onResize(TRUE, b, size)
    /\ listener' = TRUE
    /\ observing' = hasObserver(comp)
    /\ UNCHANGED <<comp, file, data, timer, chartType, selectedArtist>>
    /\ Flush(FALSE, TRUE, FALSE)
    /\ UNCHANGED pureVars

\* d3.csv resolves: data.value is assigned, also when the component has been
\* unmounted in the meantime.
LoadComplete ==
    /\ load = "pending"
    /\ load' = "done"
    /\ data' = loadData(comp, file)
    /\ UNCHANGED <<comp, file, phase, size, container, listener, timer,
                   observing, chartType, selectedArtist>>
    /\ Flush(TRUE, FALSE, FALSE)
    /\ UNCHANGED pureVars

\* d3.csv rejects: the await in loadData throws and nothing is assigned.
LoadFail ==
    /\ load = "pending"
    /\ load' = "failed"
    /\ UNCHANGED <<comp, file, phase, data, size, container, listener, timer,
                   observing, chartType, selectedArtist>>
    /\ Flush(FALSE, FALSE, FALSE)
    /\ UNCHANGED pureVars

\* A resize event of the window reaches the listener: the debounce timer is
\* (re)started.
WindowResize ==
    /\ listener
    /\ timer' = TRUE
    /\ UNCHANGED <<comp, file, phase, load, data, size, container, listener,
                   observing, chartType, selectedArtist>>
    /\ Flush(FALSE, FALSE, FALSE)
    /\ UNCHANGED pureVars

\* The debounce timer expires and onResize() runs; b is the box the
\* container has by then.
DebounceFire(b) ==
    /\ timer
    /\ timer' = FALSE
    /\ size' = onResize(container, b, size)
    /\ UNCHANGED <<comp, file, phase, load, data, container, listener,
                   observing, chartType, selectedArtist>>
    /\ Flush(FALSE, container, FALSE)
    /\ UNCHANGED pureVars

\* The ResizeObserver reports the container, whose box is b: onResize() runs
\* at once, without the debounce.
ObserverFire(b) ==
    /\ observing
    /\ size' = onResize(container, b, size)
    /\ UNCHANGED <<comp, file, phase, load, data, container, listener, timer,
                   observing, chartType, selectedArtist>>
    /\ Flush(FALSE, container, FALSE)
    /\ UNCHANGED pureVars

\* A click on the Bar / Pie buttons of the genre chart.
SetChartType(t) ==
    /\ comp = "GenreBarPie"
    /\ phase = "mounted"
    /\ chartType' = t
    /\ UNCHANGED <<comp, file, phase, load, data, size, container, listener,
                   timer, observing, selectedArtist>>
    /\ Flush(FALSE, FALSE, t # chartType)
    /\ UNCHANGED pureVars

\* handleArtistSelect / clearSelection of the App change the Sankey's prop.
SelectArtist(a) ==
    /\ comp = "Sankey"
    /\ phase = "mounted"
    /\ selectedArtist' = a
    /\ UNCHANGED <<comp, file, phase, load, data, size, container, listener,
                   timer, observing, chartType>>
    /\ Flush(FALSE, FALSE, a # selectedArtist)
    /\ UNCHANGED pureVars

\* The onBeforeUnmount hooks and the unmount: the listener is removed, the
\* observer disconnected, the template ref reset to null, the watchers
\* stopped.  A pending debounce timer is not cancelled.
Unmount ==
    /\ phase = "mounted"
    /\ phase' = "unmounted"
    /\ listener' = FALSE
    /\ observing' = FALSE
    /\ container' = FALSE
    /\ UNCHANGED <<comp, file, load, data, size, timer, chartType, selectedArtist>>
    /\ Flush(FALSE, FALSE, FALSE)
    /\ UNCHANGED pureVars

Next ==
    \/ \E b \in Boxes : Mount(b)
    \/ LoadComplete
    \/ LoadFail
    \/ WindowResize
    \/ \E b \in Boxes : DebounceFire(b)
    \/ \E b \in Boxes : ObserverFire(b)
    \/ \E t \in {"bar", "pie"} : SetChartType(t)
    \/ \E a \in Selections : SelectArtist(a)
    \/ Unmount

Spec == Init /\ [][Next]_vars

\* C2: after loadData, no record retained or folded into a group summary has a
\* measure the component uses that is not a number: the loaded data is what
\* the file without its invalid rows would have given, in every component.
C2_MeasuresAreNumbers ==
    load = "done" => data = loadData(comp, ValidRows(comp, file))

\* Components that encode artist_followers: bubble radius, colour scale of the
\* overview scatter, axis of the parallel coordinates.
FollowerEncoders == {"Bubble", "BubbleDark", "OverviewScatter", "Parallel"}

\* C3: wherever artist_followers is a size or intensity encoding, every record
\* the component's loadData retains has artist_followers > 0.
C3_FollowersPositive ==
    (load = "done" /\ comp \in FollowerEncoders) =>
        \A i \in 1..Len(data) : Gt(data[i].artist_followers, 0)

\* C4: a render pass draws only with data and a viewport of positive width
\* and height, and a step that leaves the size at {0,0} draws nothing and
\* leaves the earlier output as it was, in every component.
C4_DrawsOnlyWhenRenderable ==
    /\ [](drew => (data # <<>> /\ size.width > 0 /\ size.height > 0))
    /\ [][size' = Zero => (svg' = svg /\ ~drew')]_vars

C4_Witness ==
    /\ phase = "mounted"
    /\ load = "done" /\ data # <<>>
    /\ size = Zero
    /\ svg # Blank
    /\ ~drew

\* C5: while the component is mounted and renderable, the pass that drew the
\* <svg> used the current data and the current size, and every step that
\* changes data or size into a renderable state runs a drawing pass; also for
\* the components that watch canRender and size.
C5_RenderIsCurrent ==
    /\ []((phase = "mounted" /\ data # <<>> /\ size.width > 0 /\ size.height > 0)
           => (svg # Blank /\ svg[1].data = data /\ svg[1].size = size))
    /\ [][(/\ phase' = "mounted"
           /\ data' # data \/ size' # size
           /\ data' # <<>> /\ size'.width > 0 /\ size'.height > 0) => drew']_vars

C5_Witness ==
    /\ comp = "Parallel"
    /\ phase = "mounted"
    /\ drew
    /\ size.width = MaxWidth
    /\ svg = initChart(comp, Blank, data, size, chartType, selectedArtist)

\* C6: a failed load changes nothing but the load status: data stays empty,
\* the size is untouched, nothing is drawn, and as long as the load is failed
\* the component shows what it shows while the load is pending: no data and a
\* blank <svg>.
C6_LoadFailureIsNoData ==
    /\ [](load \in {"pending", "failed"} => (data = <<>> /\ svg = Blank /\ ~drew))
    /\ [][(load = "pending" /\ load' = "failed") =>
            UNCHANGED <<phase, data, size, container, listener, timer, observing,
                        chartType, selectedArtist, svg, drew>>]_vars

C6_Witness ==
    /\ load = "failed"
    /\ phase = "mounted"
    /\ size.width > 0 /\ size.height > 0
    /\ data = <<>>
    /\ svg = Blank

\* C7: an unmounted component has neither its window listener nor its
\* observer attached, and no later step (a debounced onResize that was
\* pending, a load that completes late) changes its size or its <svg> or runs
\* a drawing pass.
C7_TeardownIsFinal ==
    /\ [](phase = "unmounted" => (~listener /\ ~observing))
    /\ [][phase = "unmounted" => (size' = size /\ svg' = svg /\ ~drew')]_vars

\* The load completed after the unmount: data and a positive size, and yet
\* nothing drawn.
C7_Witness ==
    /\ phase = "unmounted"
    /\ load = "done" /\ data # <<>>
    /\ size.width > 0 /\ size.height > 0
    /\ svg = Blank
    /\ ~timer

\* Components whose loadData filters its rows.
Filtering ==
    {"Sparklines", "SummaryButtons", "OverviewScatter", "Bubble", "BubbleDark",
     "Treemap", "Parallel", "Sankey"}

\* The load-time filter of component c.
LoadFilter(c, rows) ==
    CASE c \in {"Bubble", "BubbleDark"} -> BubbleFilter(rows)
      [] c = "Parallel"                 -> ParallelFilter(rows)
      [] OTHER                          -> PopularityFilter(rows)

\* The typed record component c makes of a CSV row.
TypedRow(c, d) ==
    CASE c \in {"Sparklines", "OverviewScatter", "Treemap"} -> SummaryRow(d)
      [] c = "SummaryButtons"          -> DurationRow(d)
      [] c \in {"Bubble", "BubbleDark"} -> BubbleRow(d)
      [] c = "Parallel"                -> ParallelRow(d)
      [] c = "Sankey"                  -> SankeyRow(d)

\* C15: the load-time filter is idempotent: applied to the records loadData
\* retained it gives the same records in the same order, and every retained
\* record is the typed record of a row of the file, unaltered.
C15_FilterIdempotent ==
    (load = "done" /\ comp \in Filtering) =>
        /\ LoadFilter(comp, data) = data
        /\ LoadFilter(comp, LoadFilter(comp, data)) = LoadFilter(comp, data)
        /\ \A i \in 1..Len(data) :
                \E k \in 1..Len(file) : data[i] = TypedRow(comp, file[k])

\* The bubble chart has loaded a file of two rows and retained the second
\* only.
C15_Witness ==
    /\ load = "done"
    /\ comp = "Bubble"
    /\ Len(file) = 2
    /\ ~BubbleKeep(BubbleRow(file[1]))
    /\ data = <<BubbleRow(file[2])>>

\* A CSV cell that is empty (or blank) or not a number.
MissingOrInvalid(cell) == trim(cell) = <<>> \/ isNaN(ToNumber(cell))

\* The rows of a file whose two popularity cells both hold a number.
PopularityRows(rows) ==
    SelectSeq(rows, LAMBDA d : /\ ~MissingOrInvalid(d.track_popularity)
                               /\ ~MissingOrInvalid(d.artist_popularity))

\* C16: after loadData no retained record comes from a row whose
\* track_popularity or artist_popularity cell was empty or not a number: the
\* retained records are those the file without such rows would have given.
C16_MissingPopularityRemoved ==
    (load = "done" /\ comp \in Filtering) =>
        data = loadData(comp, PopularityRows(file))

(***************************************************************************)
(* initChart applied twice in a row to the same values                     *)
(***************************************************************************)

\* What an earlier pass on other values has left in the <svg>.
StalePass ==
    [data |-> <<>>, size |-> Zero, chartType |-> "bar", selectedArtist |-> Null]

InitRender ==
    /\ LifeIdle
    /\ pc = "in"
    /\ fnIn \in [comp : Components,
                 data : {<<>>} \cup {<<d>> : d \in RowPool},
                 size : Boxes,
                 chartType : {"bar", "pie"},
                 selectedArtist : {Null} \cup ArtistNames,
                 svg : {Blank, <<StalePass>>}]
    /\ fnOut = "none"

\* A render pass on the <svg> as it was found.
RenderOnce ==
    /\ pc = "in"
    /\ pc' = "once"
    /\ fnOut' = initChart(fnIn.comp, fnIn.svg, loadData(fnIn.comp, fnIn.data),
                          fnIn.size, fnIn.chartType, fnIn.selectedArtist)
    /\ UNCHANGED <<fnIn, lifeVars>>

\* A second pass, on the output of the first, with the same values.
RenderAgain ==
    /\ pc = "once"
    /\ pc' = "twice"
    /\ fnOut' = initChart(fnIn.comp, fnOut, loadData(fnIn.comp, fnIn.data),
                          fnIn.size, fnIn.chartType, fnIn.selectedArtist)
    /\ UNCHANGED <<fnIn, lifeVars>>

NextRender == RenderOnce \/ RenderAgain

SpecRender == InitRender /\ [][NextRender]_vars

\* C20: in every component, initChart run twice in a row with the same data
\* and size leaves exactly the children one run leaves: at most one pass,
\* drawn from the current values, whatever the <svg> held before.
C20_RenderIdempotent ==
    pc = "twice" =>
        /\ fnOut = initChart(fnIn.comp, fnIn.svg,
                             loadData(fnIn.comp, fnIn.data), fnIn.size,
                             fnIn.chartType, fnIn.selectedArtist)
        /\ Len(fnOut) <= 1
        /\ \A i \in 1..Len(fnOut) :
                /\ fnOut[i].data = loadData(fnIn.comp, fnIn.data)
                /\ fnOut[i].size = fnIn.size

\* The Sankey diagram has been drawn twice over an <svg> that held an
\* earlier pass.
C20_Witness ==
    /\ pc = "twice"
    /\ fnIn.comp = "Sankey"
    /\ fnIn.svg # Blank
    /\ fnIn.size.width > 0 /\ fnIn.size.height > 0
    /\ Len(fnOut) = 1
    /\ fnOut[1].data # <<>>

(***************************************************************************)
(* What a render pass leaves of its inputs                                 *)
(***************************************************************************)

initChartInputs_reverses(c, d, s) ==
    [data |-> ArrayOf([i \in 1..Len(d) |-> d[Len(d) + 1 - i]]), size |-> s]

\* data.value and size.value once initChart() has returned.  No initChart
\* assigns either, and every sort of a pass works on an array of its own:
\* [...values].sort in drawSparkline, the mapped entries of
\* prepareTreemapData, the copies of nodes and links handed to the sankey
\* layout; filter, map, forEach, groupBy and the scales only read.
initChartInputs(c, d, s) == [data |-> d, size |-> s]

InitFrame ==
    /\ LifeIdle
    /\ pc = "in"
    /\ fnIn \in [comp : Components,
                 file : SeqsUpTo(RowPool, MaxRows),
                 size : Boxes,
                 selectedArtist : {Null} \cup ArtistNames]
    /\ fnOut = "none"

\* A render pass over the loaded records of a file.
RunInitChart ==
    /\ pc = "in"
    /\ pc' = "out"
    /\ fnOut' = initChartInputs(fnIn.comp, loadData(fnIn.comp, fnIn.file),
                                fnIn.size)
    /\ UNCHANGED <<fnIn, lifeVars>>

NextFrame == RunInitChart

SpecFrame == InitFrame /\ [][NextFrame]_vars

C22_SizeUpdatesAreDebounced ==
    [][(phase = "mounted" /\ size' # size) => (timer /\ ~timer')]_vars

\* Most resize events of a run of the two variants below.
MaxEvents == 2

trailingBox_leading(first, now) == first

\* The box onResize() reads when lodash debounce invokes it: the handler runs
\* on the trailing edge and reads clientWidth / clientHeight then, whatever
\* the box was at the first event of the burst.
trailingBox(first, now) == now

\* One variant after onResize() measured box b: size is assigned and the
\* watchers render when canRender holds.
Resized(c, d, v, b) ==
    LET s == onResize(TRUE, b, v.size)
    IN  [size |-> s,
         svg  |-> IF /\ watchRuns(c, FALSE, TRUE, FALSE,
                                  canRender(d, v.size), canRender(d, s))
                     /\ canRender(d, s)
                  THEN initChart(c, v.svg, d, s, "bar", Null)
                  ELSE v.svg]

\* A mounted component with its records loaded, run twice side by side: one
\* with the window listener calling onResize directly, one through the
\* debounce.  Both have measured the container box once, on mount.
InitDebounce ==
    /\ LifeIdle
    /\ pc = "run"
    /\ fnIn \in [comp : Components,
                 file : {<<>>, <<CHOOSE r \in RowPool : r.artist_name = <<"B">>>>},
                 box  : Boxes]
    /\ fnOut = LET d == loadData(fnIn.comp, fnIn.file)
                   v == Resized(fnIn.comp, d, [size |-> Zero, svg |-> Blank],
                                fnIn.box)
               IN  [events |-> 0, box |-> fnIn.box, first |-> fnIn.box,
                    timer |-> FALSE, direct |-> v, debounced |-> v]

\* The window is resized and the container takes box b: the direct variant
\* measures at once, the debounced one (re)starts its timer.
ResizeEvent(b) ==
    /\ pc = "run"
    /\ fnOut.events < MaxEvents
    /\ fnOut' = [fnOut EXCEPT
                    !.events = @ + 1,
                    !.box    = b,
                    !.first  = IF fnOut.timer THEN @ ELSE b,
                    !.timer  = TRUE,
                    !.direct = Resized(fnIn.comp,
                                       loadData(fnIn.comp, fnIn.file), @, b)]
    /\ UNCHANGED <<pc, fnIn, lifeVars>>

\* The debounce window ends without a further event.
TimerFire ==
    /\ pc = "run"
    /\ fnOut.timer
    /\ fnOut' = [fnOut EXCEPT
                    !.timer     = FALSE,
                    !.debounced = Resized(fnIn.comp,
                                          loadData(fnIn.comp, fnIn.file), @,
                                          trailingBox(fnOut.first, fnOut.box))]
    /\ UNCHANGED <<pc, fnIn, lifeVars>>

NextDebounce == (\E b \in Boxes : ResizeEvent(b)) \/ TimerFire

SpecDebounce == InitDebounce /\ [][NextDebounce]_vars

\* C23 as stated: once the resize events are over and no timer is pending,
\* the two variants hold the same size and show the same last render.
C23_DebounceOnlyDelays ==
    ~fnOut.timer =>
        /\ fnOut.direct.size = fnOut.debounced.size
        /\ fnOut.direct.svg = fnOut.debounced.svg

\* C23 amended: once the resize events are over and no timer is pending, the
\* two variants hold the same size, and they show the same last render
\* whenever that size has a positive width and height and there is data.
C23_DebounceOnlyDelaysRenderable ==
    ~fnOut.timer =>
        /\ fnOut.direct.size = fnOut.debounced.size
        /\ canRender(loadData(fnIn.comp, fnIn.file), fnOut.direct.size)
                => fnOut.direct.svg = fnOut.debounced.svg

\* Two resize events fell into one debounce window, the direct variant drew
\* both boxes, and after the window both variants show the last one.
C23_Witness ==
    /\ fnOut.events = 2
    /\ ~fnOut.timer
    /\ fnOut.first # fnOut.box
    /\ fnOut.first.width > 0 /\ fnOut.first.height > 0
    /\ fnOut.debounced.svg # Blank
    /\ fnOut.debounced.svg[1].size = fnOut.box
    /\ fnOut.direct.svg = fnOut.debounced.svg

\* What a mounted component shows when its last render does not depend on
\* when the load completed: the pass over its records and its size when
\* these can be rendered, and otherwise what a load that completes last
\* leaves, an <svg> never drawn into.
TimingFree(c, d, s, ct, sel) ==
    IF canRender(d, s) THEN initChart(c, Blank, d, s, ct, sel) ELSE Blank

\* C24 as stated: with the load completed and no resize pending, the last
\* render is fixed by the loaded records and the final size, whenever the
\* load completed.
C24_LoadTimingIrrelevant ==
    (phase = "mounted" /\ load = "done" /\ ~timer) =>
        svg = TimingFree(comp, data, size, chartType, selectedArtist)

\* C24 amended: with the load completed and no resize pending, the last
\* render is fixed by the loaded records and the final size whenever the
\* final size has a positive width and height or no record was retained.
C24_LoadTimingIrrelevantRenderable ==
    (phase = "mounted" /\ load = "done" /\ ~timer
        /\ (data = <<>> \/ (size.width > 0 /\ size.height > 0))) =>
        svg = TimingFree(comp, data, size, chartType, selectedArtist)

\* A genre chart, which watches canRender, was measured before its load
\* completed and drew when the records arrived.
C24_Witness ==
    /\ comp = "GenreBar"
    /\ phase = "mounted" /\ load = "done" /\ ~timer
    /\ drew
    /\ data # <<>>
    /\ size = [width |-> MaxWidth, height |-> MaxHeight]
    /\ svg = TimingFree(comp, data, size, chartType, selectedArtist)

\* C25: once the load has completed with at least one retained record and
\* the container has been measured with a positive width and height, a render
\* pass runs with that data and that size, in every component and without a
\* further resize event: it runs in the step that completes the load when
\* the size was measured first, and in the step that measures the size when
\* the load completed first.
C25_LoadedAndMeasuredRenders ==
    /\ [][(/\ load = "pending" /\ load' = "done"
           /\ phase' = "mounted"
           /\ data' # <<>> /\ size'.width > 0 /\ size'.height > 0)
              => (/\ drew'
                  /\ svg' = initChart(comp, Blank, data', size', chartType',
                                      selectedArtist'))]_vars
    /\ [][(/\ load = "done" /\ data # <<>>
           /\ phase' = "mounted"
           /\ ~(size.width > 0 /\ size.height > 0)
           /\ size'.width > 0 /\ size'.height > 0)
              => (/\ drew'
                  /\ svg' = initChart(comp, Blank, data', size', chartType',
                                      selectedArtist'))]_vars

\* The genre chart with the Bar / Pie buttons, which watches canRender and
\* size, has drawn its loaded genres at the size 1 x 1.
C25_Witness ==
    /\ comp = "GenreBarPie"
    /\ phase = "mounted" /\ load = "done"
    /\ drew
    /\ data # <<>>
    /\ size = [width |-> 1, height |-> 1]
    /\ svg = initChart(comp, Blank, data, size, chartType, selectedArtist)

(***************************************************************************)
(* The summary buttons of the dashboard variant that reads the duration    *)
(***************************************************************************)

\* Number.prototype.toFixed(1) of the non-negative quotient num / den, kept
\* in tenths; NaN prints as "NaN".
toFixed1(num, den) ==
    IF isNaN(num) THEN [nan |-> TRUE, tenths |-> 0]
    ELSE [nan |-> FALSE, tenths |-> (2 * num + den) \div (2 * den)]

\* The computed stats of the variant: the fields the buttons read.  The
\* sums are in thousandths; the duration is divided by 1000 and by 60.
durationStats(d) ==
    LET trackPops == ArrayOf([i \in 1..Len(d) |-> d[i].track_popularity])
        durations == ArrayOf([i \in 1..Len(d) |-> d[i].track_duration_ms])
    IN  IF d = <<>>
        THEN [isNull |-> TRUE, totalTracks |-> 0,
              avgTrackPopularity |-> toFixed1(0, 1),
              avgDuration |-> toFixed1(0, 1)]
        ELSE [isNull |-> FALSE, totalTracks |-> Len(d),
              avgTrackPopularity |-> toFixed1(SumSeq(trackPops), Len(d) * 100),
              avgDuration |-> toFixed1(SumSeq(durations), Len(d) * 6000000)]

\* const avgDuration = (stats.value.avgTrackPopularity * 3.5).toFixed(1)
popularityEstimate(st) ==
    IF st.avgTrackPopularity.nan THEN toFixed1(NaN, 1)
    ELSE toFixed1(7 * st.avgTrackPopularity.tenths, 2)

avgDurationButton_estimate(st) ==
    [label |-> "Avg Duration", value |-> popularityEstimate(st), unit |-> "m"]

\* { label: 'Avg Duration', value: `${stats.value.avgDuration}m`, ... }
avgDurationButton(st) ==
    [label |-> "Avg Duration", value |-> st.avgDuration, unit |-> "m"]

\* Rows of a file the variant loads.
MaxDurationRows == 2

DurationPops == {<<"1", "0">>, <<"2", "0">>, <<"5", "5">>}

DurationCells ==
    {<<"1", "8", "0", "0", "0", "0">>, <<"2", "4", "0", "0", "0", "0">>, <<"x">>}

DurationRows ==
    {Row(<<"A">>, tp, <<"5", "0">>, <<"5">>, dur, <<>>, <<>>) :
        tp \in DurationPops, dur \in DurationCells}

InitDuration ==
    /\ pc = "file"
    /\ fnIn \in SeqsUpTo(DurationRows, MaxDurationRows)
    /\ fnOut = <<>>
    /\ LifeIdle

\* loadData, then the render pass that draws the buttons; the pass runs
\* only when canRender is true, that is with a record loaded.
DrawButtons ==
    /\ pc = "file"
    /\ DurationLoadData(fnIn) # <<>>
    /\ pc' = "buttons"
    /\ fnOut' = [data     |-> DurationLoadData(fnIn),
                 estimate |-> popularityEstimate(
                                  durationStats(DurationLoadData(fnIn))),
                 button   |-> avgDurationButton(
                                  durationStats(DurationLoadData(fnIn)))]
    /\ UNCHANGED <<fnIn>>
    /\ UNCHANGED lifeVars

NextDuration == DrawButtons

SpecDuration == InitDuration /\ [][NextDuration]_vars

\* C26 as stated: the "Avg Duration" button displays the value computed as
\* avgTrackPopularity * 3.5.
C26_ButtonShowsEstimate ==
    pc = "buttons" => fnOut.button.value = fnOut.estimate

\* The mean of the track_duration_ms fields in tenths of a minute, rounded to
\* the nearest tenth; the sum is in thousandths of a millisecond.  With q the
\* whole part of twice the mean in tenths, t is the rounding exactly when
\* 2t - 1 <= q < 2t + 1.
IsMeanMinutes(d, t) ==
    LET total == reduceSum(ArrayOf([i \in 1..Len(d) |-> d[i].track_duration_ms]))
        twice == (2 * total) \div (Len(d) * 6000000)
    IN  /\ 2 * t - 1 <= twice
        /\ twice < 2 * t + 1

\* C26 amended: the "Avg Duration" button displays the mean of the
\* track_duration_ms fields of the records in minutes to one decimal, with
\* the unit "m", and "NaN" when the duration of a record is not a number;
\* the value avgTrackPopularity * 3.5 is computed and not displayed.
C26_ButtonShowsMeanDuration ==
    pc = "buttons" =>
        /\ fnOut.button.label = "Avg Duration"
        /\ fnOut.button.unit = "m"
        /\ IF \E i \in 1..Len(fnOut.data) : isNaN(fnOut.data[i].track_duration_ms)
           THEN fnOut.button.value.nan
           ELSE /\ ~fnOut.button.value.nan
                /\ IsMeanMinutes(fnOut.data, fnOut.button.value.tenths)

\* Two tracks of 3.0 and 4.0 minutes with the popularities 10 and 20: the
\* button shows 3.5 and the estimate is 52.5.
C26_Witness ==
    /\ pc = "buttons"
    /\ Len(fnOut.data) = 2
    /\ fnOut.button.value = [nan |-> FALSE, tenths |-> 35]
    /\ fnOut.estimate = [nan |-> FALSE, tenths |-> 525]

(***************************************************************************)
(* Hover tooltips of the Sankey links and of the pie slices                *)
(***************************************************************************)

\* Render passes of one run, drawn links or slices, pointer positions.
MaxPasses == 2

MaxElements == 2

MaxPointer == 2

\* The class of the tooltip the component appends to the document body.
tooltipClass(c) ==
    IF c = "Sankey" THEN "sankey-tooltip" ELSE "pie-tooltip-box"

\* mouseover: d3.select('body').append('div') at the pointer.
appendTooltip(c, body, p) == Append(body, [class |-> tooltipClass(c), at |-> p])

\* mousemove: d3.selectAll(<class>).style('left', ...).style('top', ...)
moveTooltips(c, body, p) ==
    ArrayOf([i \in 1..Len(body) |->
        IF body[i].class = tooltipClass(c) THEN [body[i] EXCEPT !.at = p]
        ELSE body[i]])

\* mouseout: d3.selectAll(<class>).remove()
removeTooltips(c, body) == SelectSeq(body, LAMBDA t : t.class # tooltipClass(c))

\* The state after a render pass has drawn the links or the slices: no
\* element is hovered and the body holds no tooltip.
InitTooltip ==
    /\ pc = "hover"
    /\ fnIn \in [comp : {"Sankey", "GenreBarPie"}, elements : 1..MaxElements]
    /\ fnOut = [pass |-> 1, hovered |-> 0, body |-> <<>>]
    /\ LifeIdle

\* The pointer enters element e of the current pass at position p.
MouseOver(e, p) ==
    /\ pc = "hover"
    /\ fnOut.hovered = 0
    /\ fnOut' = [fnOut EXCEPT !.hovered = e,
                              !.body = appendTooltip(fnIn.comp, fnOut.body, p)]
    /\ UNCHANGED <<pc, fnIn>>
    /\ UNCHANGED lifeVars

MouseMove(p) ==
    /\ pc = "hover"
    /\ fnOut.hovered # 0
    /\ fnOut' = [fnOut EXCEPT !.body = moveTooltips(fnIn.comp, fnOut.body, p)]
    /\ UNCHANGED <<pc, fnIn>>
    /\ UNCHANGED lifeVars

\* The pointer leaves the hovered element.
MouseOut ==
    /\ pc = "hover"
    /\ fnOut.hovered # 0
    /\ fnOut' = [fnOut EXCEPT !.hovered = 0,
                              !.body = removeTooltips(fnIn.comp, fnOut.body)]
    /\ UNCHANGED <<pc, fnIn>>
    /\ UNCHANGED lifeVars

\* initChart after a resize, a selection change or a chart-type toggle:
\* selectAll('*').remove() detaches every element of the svg, the hovered
\* one included, and the pass draws new ones.  The handlers of a detached
\* element are not called again, and the pass does not touch the body.
RenderPass ==
    /\ pc = "hover"
    /\ fnOut.pass < MaxPasses + 1
    /\ fnOut' = [fnOut EXCEPT !.pass = fnOut.pass + 1, !.hovered = 0]
    /\ UNCHANGED <<pc, fnIn>>
    /\ UNCHANGED lifeVars

NextTooltip ==
    \/ \E e \in 1..MaxElements, p \in 1..MaxPointer :
            e <= fnIn.elements /\ MouseOver(e, p)
    \/ \E p \in 1..MaxPointer : MouseMove(p)
    \/ MouseOut
    \/ RenderPass

SpecTooltip == InitTooltip /\ [][NextTooltip]_vars

\* C27: after any sequence of mouseover, mouseout and render passes the body
\* holds at most one tooltip element, and none while nothing is hovered.
C27_AtMostOneTooltip ==
    pc = "hover" =>
        /\ Len(fnOut.body) <= 1
        /\ (fnOut.hovered = 0 => fnOut.body = <<>>)

(***************************************************************************)
(* The artist selection shared by the App and the Sankey diagram           *)
(***************************************************************************)

\* Sum of the values of the links of one drawing.
LinkTotal(links) == reduceSum(ArrayOf([i \in 1..Len(links) |-> links[i].value]))

\* Records of the artist named sel among d.
RecordsOf(d, sel) == Cardinality({i \in 1..Len(d) : d[i].artist_name = sel})

\* C28: selectedArtist is null until a selection is made; a change of
\* selectedArtist leaves the loaded records as they are and, when the mounted
\* Sankey is renderable, runs a render pass with the new selection; the link
\* values of a drawing sum to the number of records of the selected artist
\* while the selection is a non-empty name, and to the number of all loaded
\* records while it is null or the empty name.
C28_SelectionFiltersLinks ==
    /\ [](phase = "setup" => selectedArtist = Null)
    /\ [][selectedArtist' # selectedArtist =>
            /\ data' = data
            /\ file' = file
            /\ canRender(data', size') =>
                  /\ drew'
                  /\ svg' = <<[data |-> data', size |-> size',
                               chartType |-> chartType',
                               selectedArtist |-> selectedArtist']>>]_vars
    /\ [](comp = "Sankey" =>
            \A i \in 1..Len(svg) :
                LinkTotal(prepareSankeyData(svg[i].data, svg[i].selectedArtist))
                    = IF svg[i].selectedArtist \in {Null, <<>>}
                      THEN Len(svg[i].data)
                      ELSE RecordsOf(svg[i].data, svg[i].selectedArtist))

\* The Sankey has drawn two loaded records with the artist "B" selected, who
\* has one of them.
C28_Witness ==
    /\ comp = "Sankey" /\ phase = "mounted"
    /\ selectedArtist = <<"B">>
    /\ drew
    /\ Len(data) = 2
    /\ Len(svg) = 1
    /\ svg[1].selectedArtist = <<"B">>
    /\ LinkTotal(prepareSankeyData(svg[1].data, svg[1].selectedArtist)) = 1

(***************************************************************************)
(* The sample of the parallel-coordinates plot                             *)
(***************************************************************************)

\* Files of ParallelLimit - MaxParallelExtra .. ParallelLimit +
\* MaxParallelExtra rows, popularity patterns, rows the filter drops.
MaxParallelExtra == 3

MaxParallelPattern == 4

MaxParallelDrop == 3

\* Row i of the file (k, drop): popularity i * k mod 101; the first drop
\* rows are invalid, by a duration that is not a number or by no follower.
ParallelFileRow(i, k, drop) ==
    Row(ArtistName(i), DecimalString((i * k) % 101), <<"5", "0">>,
        IF i <= drop /\ i % 2 = 0 THEN <<"0">> ELSE <<"5">>,
        IF i <= drop /\ i % 2 = 1 THEN <<"x">> ELSE <<"9">>,
        <<>>, <<>>)

ParallelFile(n, k, drop) == ArrayOf([i \in 1..n |-> ParallelFileRow(i, k, drop)])

InitParallel ==
    /\ pc = "file"
    /\ fnIn \in [n    : (ParallelLimit - MaxParallelExtra)
                            ..(ParallelLimit + MaxParallelExtra),
                 k    : 1..MaxParallelPattern,
                 drop : 0..MaxParallelDrop]
    /\ fnOut = <<>>
    /\ LifeIdle

\* loadData of the plot on the file.
LoadParallel ==
    /\ pc = "file"
    /\ pc' = "loaded"
    /\ fnOut' = ParallelLoadData(ParallelFile(fnIn.n, fnIn.k, fnIn.drop))
    /\ UNCHANGED <<fnIn>>
    /\ UNCHANGED lifeVars

NextParallel == LoadParallel

SpecParallel == InitParallel /\ [][NextParallel]_vars

\* The typed records of the file that pass the load filter, in file order.
Passing(csv) ==
    SelectSeq(ArrayOf([i \in 1..Len(csv) |-> ParallelRow(csv[i])]), ParallelKeep)

\* C29: after loadData the plot holds at most 300 records and each satisfies
\* the load filter; when more than 300 records pass, the retained ones are
\* 300 distinct passing records in descending track_popularity and no
\* dropped record has a strictly higher track_popularity than a retained
\* one; when at most 300 pass, all are retained in file order.
C29_SampleIsTopByPopularity ==
    pc = "loaded" =>
        LET pass == Passing(ParallelFile(fnIn.n, fnIn.k, fnIn.drop))
            kept == {fnOut[i] : i \in 1..Len(fnOut)}
            low  == fnOut[Len(fnOut)].track_popularity
        IN  /\ Len(fnOut) <= ParallelLimit
            /\ \A i \in 1..Len(fnOut) : ParallelKeep(fnOut[i])
            /\ IF Len(pass) > ParallelLimit
               THEN /\ Len(fnOut) = ParallelLimit
                    /\ Cardinality(kept) = ParallelLimit
                    /\ \A i \in 1..Len(fnOut) - 1 :
                          fnOut[i].track_popularity >= fnOut[i + 1].track_popularity
                    /\ \A j \in 1..Len(pass) :
                          \/ pass[j] \in kept
                          \/ pass[j].track_popularity <= low
                    /\ kept \subseteq {pass[j] : j \in 1..Len(pass)}
               ELSE fnOut = pass

\* A file of 303 rows of which 302 pass: 300 are retained and the first
\* retained record is not the first passing one.
C29_Witness ==
    /\ pc = "loaded"
    /\ fnIn.n = ParallelLimit + 3 /\ fnIn.drop = 1 /\ fnIn.k = 1
    /\ Len(fnOut) = ParallelLimit
    /\ fnOut[1].track_popularity = 100 * Milli

(***************************************************************************)
(* The treemap: the title's stats and the drawn tiles                      *)
(***************************************************************************)

statsChildren_all(tracks) ==
    LET grouped == groupedOf(tracks)
    IN  ArrayOf([i \in 1..Len(grouped) |->
            [name       |-> grouped[i].key,
             value      |-> Len(grouped[i].tracks),
             popularity |->
                 reduceMean(ArrayOf([k \in 1..Len(grouped[i].tracks) |->
                                grouped[i].tracks[k].track_popularity]))]])

\* The local children of the stats computed: the artists' nodes sorted by
\* descending track count, the first TopTreemapLimit of them.
statsChildren(tracks) ==
    LET grouped  == groupedOf(tracks)
        children ==
            ArrayOf([i \in 1..Len(grouped) |->
                [name       |-> grouped[i].key,
                 value      |-> Len(grouped[i].tracks),
                 popularity |->
                     reduceMean(ArrayOf([k \in 1..Len(grouped[i].tracks) |->
                                    grouped[i].tracks[k].track_popularity]))]])
    IN  slice(sortDesc(children,
                       ArrayOf([i \in 1..Len(children) |-> children[i].value])),
              TopTreemapLimit)

\* The stats computed of the treemap: null without data, else the counts
\* the title shows.
treemapStats(tracks) ==
    IF tracks = <<>>
    THEN [isNull |-> TRUE, artistCount |-> 0, topArtistCount |-> 0,
          totalTracks |-> 0]
    ELSE LET children == statsChildren(tracks)
         IN  [isNull         |-> FALSE,
              artistCount    |-> Len(groupedOf(tracks)),
              topArtistCount |-> Len(children),
              totalTracks    |->
                  reduceSum(ArrayOf([i \in 1..Len(children) |-> children[i].value]))]

\* The tiles initChart draws: the leaves of d3.hierarchy(prepareTreemapData())
\* after .sum(d => d.value) and .sort by descending value; none while
\* canRender is false.
treemapTiles(tracks, s) ==
    IF ~canRender(tracks, s) THEN <<>>
    ELSE LET children == prepareTreemapData(tracks)
         IN  sortDesc(children,
                      ArrayOf([i \in 1..Len(children) |-> children[i].value]))

InitTreemap ==
    /\ pc = "file"
    /\ fnIn \in RankDatasets
    /\ fnOut = <<>>
    /\ LifeIdle

\* loadData, then the stats and the render pass at the size 1 x 1.
DrawTreemap ==
    /\ pc = "file"
    /\ pc' = "drawn"
    /\ fnOut' = [data     |-> SummaryLoadData(fnIn),
                 children |-> statsChildren(SummaryLoadData(fnIn)),
                 stats    |-> treemapStats(SummaryLoadData(fnIn)),
                 tiles    |-> treemapTiles(SummaryLoadData(fnIn),
                                           [width |-> 1, height |-> 1])]
    /\ UNCHANGED <<fnIn>>
    /\ UNCHANGED lifeVars

NextTreemap == DrawTreemap

SpecTreemap == InitTreemap /\ [][NextTreemap]_vars

\* Distinct artist names of the loaded records.
DistinctArtists(d) == Cardinality({d[i].artist_name : i \in 1..Len(d)})

\* C30: the top-40 artist list the stats compute equals the children of
\* prepareTreemapData; topArtistCount is the smaller of 40 and the number of
\* distinct artists; totalTracks is the sum of the track counts of the drawn
\* tiles and at most the number of loaded records.
C30_StatsMatchTiles ==
    (pc = "drawn" /\ fnOut.data # <<>>) =>
        /\ ~fnOut.stats.isNull
        /\ fnOut.children = prepareTreemapData(fnOut.data)
        /\ fnOut.stats.topArtistCount =
              (IF DistinctArtists(fnOut.data) < TopTreemapLimit
               THEN DistinctArtists(fnOut.data) ELSE TopTreemapLimit)
        /\ fnOut.stats.totalTracks =
              reduceSum(ArrayOf([i \in 1..Len(fnOut.tiles) |->
                                    fnOut.tiles[i].value]))
        /\ fnOut.stats.totalTracks <= Len(fnOut.data)

\* More than 40 artists are loaded: 40 tiles are drawn and they hold fewer
\* tracks than were loaded.
C30_Witness ==
    /\ pc = "drawn"
    /\ DistinctArtists(fnOut.data) > TopTreemapLimit
    /\ fnOut.stats.topArtistCount = TopTreemapLimit
    /\ Len(fnOut.tiles) = TopTreemapLimit
    /\ fnOut.stats.totalTracks < Len(fnOut.data)

====
